---- MODULE Spec2Model ----
(***************************************************************************)
(* State-machine model of ansible-api (Cellofworld/ansible-api).          *)
(*                                                                         *)
(* The program is an HTTP service that runs ansible playbooks in           *)
(* background goroutines serialized by one process-wide sync.Mutex,        *)
(* records every run in the tables playbook_run / playbook_log, probes     *)
(* inventories in unserialized goroutines (inventory_check) and sweeps     *)
(* old rows once a day.  The model follows the GORM variant of the         *)
(* program (src/unnamed/part_001); src/main.go is the older database/sql   *)
(* variant of the same handlers.                                           *)
(*                                                                         *)
(* Tables are functions from the identifiers of the visible rows to        *)
(* records.  All three record tables embed gorm.Model, so a GORM Delete    *)
(* is a soft delete that every later query, update and delete of the       *)
(* program skips (deleted_at IS NULL); for runs, logs and checks such a    *)
(* row is therefore modelled as removed from the table.  Inventories keep  *)
(* the soft-deleted row, because the unique index on name still sees it.   *)
(*                                                                         *)
(* Time is a discrete non-decreasing clock whose unit is one day, the      *)
(* unit of the retention horizon.                                          *)
(***************************************************************************)
EXTENDS Integers, Sequences, FiniteSets, TLC

(* ------------------------------ bounds --------------------------------- *)

\* number of POST /api/run requests the model lets arrive
MaxSubmits == 2

\* number of accepted POST /api/inventories/{name}/check requests
MaxChecks == 2

\* number of lines of the text given to parsePingResults
MaxLines == 3

\* number of runs, each with its log row, in the store that is listed
MaxRows == 5

\* number of calls of runAnsiblePlaybook and testInventoryHosts that use
\* temporary files
MaxCalls == 2

(* ------------------------ configuration, inputs ------------------------ *)

\* cfg.Logging.RetentionDays (configurable; the model uses a short horizon)
RetentionDays == 1

\* the clock stops one day past the horizon, the first day on which a row
\* written on day 0 is older than the cutoff
MaxClock == RetentionDays + 1

\* cfg.Logging.PageSize (configurable; the model uses small pages)
PageSize == 2

\* files present under cfg.Server.PlaybooksDir
Playbooks == {"deploy.yml"}

\* playbook names a request may carry
RequestedPlaybooks == {"deploy.yml", "missing.yml"}

\* inventory names; "" in a run request means no inventory
InvNames == {"production"}

RequestedInventories == {""} \cup InvNames

InvContents == {"web1 web2"}

Requests == 1..MaxSubmits

RunIDs == 1..MaxSubmits

CheckIDs == 1..MaxChecks

\* the calls of runAnsiblePlaybook and testInventoryHosts
Calls == 1..MaxCalls

\* an optional column (*time.Time, *float64): <<>> is NULL
None == <<>>

Some(x) == <<x>>

NoReq == [playbook |-> "", inventory |-> ""]

\* what exec.Cmd.CombinedOutput can return: exit 0, a non-zero exit with the
\* output captured so far, or a launch failure with nothing captured;
\* err = "" is the nil error
ExecResults ==
    { [output |-> "ok", err |-> ""],
      [output |-> "fatal", err |-> "exit status 2"],
      [output |-> "", err |-> "executable file not found"] }

NoResult == [output |-> "", err |-> ""]

\* what testInventoryHosts can return: the parsed host map (possibly
\* empty), or nil and an error
ProbeResults ==
    { [results |-> Some("web1=reachable"), err |-> ""],
      [results |-> Some(""), err |-> ""],
      [results |-> None, err |-> "ansible failed"] }

(* ------------------------------- state --------------------------------- *)

VARIABLES
    clock,      \* time.Now()
    mutex,      \* the package variable mutex: 0 free, else the request whose goroutine holds it
    invs,       \* table inventory, keyed by name (unique), soft-deleted rows kept
    runs,       \* table playbook_run: visible rows by id
    nextRunID,  \* the id sequence of playbook_run
    logs,       \* table playbook_log: visible rows by id
    nextLogID,  \* the id sequence of playbook_log
    checks,     \* table inventory_check: visible rows by id
    nextCheckID,\* the id sequence of inventory_check
    hpc,        \* per request: where runPlaybookHandler is
    req,        \* per request: the decoded PlaybookRequest
    rid,        \* per request: runID returned by logPlaybookStart (0: none)
    tpc,        \* per request: where the goroutine of runPlaybookHandler is
    tStart,     \* per request: the goroutine's startTime
    tRes,       \* per request: (output, err) returned by runAnsiblePlaybook
    tLog,       \* per request: id of the row its logExecution call inserted (0: none)
    cpc,        \* per check: where the goroutine of checkInventoryHandler is
    cname,      \* per check: inventoryName captured by that goroutine
    pingOutput, \* parsePingResults: its argument, lines of whitespace-separated fields
    pingResults,\* parsePingResults: the map it returned (None: not called)
    listing,    \* the listing handler in progress: its locals and its response
    tmpFiles,   \* the temporary files that exist (os.CreateTemp, os.Remove)
    calls       \* per call of runAnsiblePlaybook / testInventoryHosts: where it is

vars == << clock, mutex, invs, runs, nextRunID, logs, nextLogID, checks,
           nextCheckID, hpc, req, rid, tpc, tStart, tRes, tLog, cpc, cname,
           pingOutput, pingResults, listing, tmpFiles, calls >>

storeVars == << invs, runs, nextRunID, logs, nextLogID, checks, nextCheckID >>

runTaskVars == << tpc, tStart, tRes, tLog >>

checkTaskVars == << cpc, cname >>

handlerVars == << hpc, req, rid >>

\* what the functions checked on their own work on
parseVars == << pingOutput, pingResults >>

tempVars == << tmpFiles, calls >>

unitVars == << parseVars, listing, tempVars >>

serviceVars == << clock, mutex, storeVars, handlerVars, runTaskVars,
                  checkTaskVars >>

\* the service after init() and initDB(): empty tables, nothing in flight
ServiceInit ==
    /\ clock = 0
    /\ mutex = 0
    /\ invs = << >>
    /\ runs = << >>
    /\ nextRunID = 1
    /\ logs = << >>
    /\ nextLogID = 1
    /\ checks = << >>
    /\ nextCheckID = 1
    /\ hpc = [q \in Requests |-> "idle"]
    /\ req = [q \in Requests |-> NoReq]
    /\ rid = [q \in Requests |-> 0]
    /\ tpc = [q \in Requests |-> "none"]
    /\ tStart = [q \in Requests |-> 0]
    /\ tRes = [q \in Requests |-> NoResult]
    /\ tLog = [q \in Requests |-> 0]
    /\ cpc = [c \in CheckIDs |-> "none"]
    /\ cname = [c \in CheckIDs |-> ""]

\* a listing handler that has not been entered
NoListing ==
    [ pc |-> "idle", table |-> "", param |-> << >>, playbook |-> "",
      page |-> 0, totalCount |-> 0, totalPages |-> 0, rows |-> << >> ]

\* a call that has not been made
NoCall ==
    [ fn |-> "", pc |-> "none", deferred |-> << >>, created |-> {}, err |-> "" ]

\* no call of parsePingResults has been made, no listing is in progress,
\* no temporary file exists
UnitInit ==
    /\ pingOutput = << >>
    /\ pingResults = None
    /\ listing = NoListing
    /\ tmpFiles = {}
    /\ calls = [k \in Calls |-> NoCall]

Init == ServiceInit /\ UnitInit

(* --------------------------- table helpers ----------------------------- *)

\* INSERT of row at key
Insert(tbl, key, row) ==
    [k \in DOMAIN tbl \cup {key} |-> IF k = key THEN row ELSE tbl[k]]

\* the rows of tbl whose key is in keep
Restrict(tbl, keep) == [k \in DOMAIN tbl \cap keep |-> tbl[k]]

\* db.Where("name = ?", name).First(&inv): the live row of that name
InvLive(tbl, name) == name \in DOMAIN tbl /\ ~tbl[name].deleted

\* getInventoryContent: the content, or an error (record not found)
getInventoryContent(tbl, name) ==
    IF InvLive(tbl, name)
    THEN [content |-> tbl[name].content, err |-> ""]
    ELSE [content |-> "", err |-> "record not found"]

(* -------------------------------- clock -------------------------------- *)

Tick ==
    /\ clock < MaxClock
    /\ clock' = clock + 1
    /\ UNCHANGED unitVars
    /\ UNCHANGED << mutex, storeVars, handlerVars, runTaskVars, checkTaskVars >>

(* ------------------------ POST /api/run: handler ----------------------- *)

\* requests arrive one after the other: q is the next one
Arriving(q) ==
    /\ hpc[q] = "idle"
    /\ \A k \in Requests : k < q => hpc[k] # "idle"

\* mutant of logPlaybookStart: the row is written with RunStatusCompleted
logPlaybookStartCompleted(tbl, id, r, now) ==
    Insert(tbl, id,
           [ playbook |-> r.playbook,
             inventory |-> r.inventory,
             status |-> "completed",
             start_time |-> now,
             end_time |-> None,
             duration |-> None,
             output |-> "",
             error |-> "" ])

\* logPlaybookStart: db.Create of a run in status started; end_time and
\* duration stay NULL, output and error empty
logPlaybookStart(tbl, id, r, now) ==
    Insert(tbl, id,
           [ playbook |-> r.playbook,
             inventory |-> r.inventory,
             status |-> "started",
             start_time |-> now,
             end_time |-> None,
             duration |-> None,
             output |-> "",
             error |-> "" ])

\* mutant of runPlaybookNotFound: the return after http.Error is missing,
\* so the handler goes on to logPlaybookStart and the go statement
runPlaybookNotFoundNoReturn(q) ==
    /\ Arriving(q)
    /\ \E p \in RequestedPlaybooks \ Playbooks :
         LET r == [playbook |-> p, inventory |-> ""] IN
           /\ req' = [req EXCEPT ![q] = r]
           /\ runs' = logPlaybookStart(runs, nextRunID, r, clock)
    /\ rid' = [rid EXCEPT ![q] = nextRunID]
    /\ nextRunID' = nextRunID + 1
    /\ hpc' = [hpc EXCEPT ![q] = "notfound"]
    /\ tpc' = [tpc EXCEPT ![q] = "wait"]
    /\ UNCHANGED unitVars
    /\ UNCHANGED << clock, mutex, invs, logs, nextLogID, checks, nextCheckID,
                    tStart, tRes, tLog, checkTaskVars >>

\* os.Stat(playbookPath) reports that the file does not exist: 404, return
runPlaybookNotFound(q) ==
    /\ Arriving(q)
    /\ \E p \in RequestedPlaybooks \ Playbooks :
         /\ hpc' = [hpc EXCEPT ![q] = "notfound"]
         /\ req' = [req EXCEPT ![q] = [playbook |-> p, inventory |-> ""]]
    /\ UNCHANGED unitVars
    /\ UNCHANGED << clock, mutex, storeVars, rid, runTaskVars, checkTaskVars >>

\* the playbook exists: logPlaybookStart, then go func() { ... }; the
\* handler is left at h
Accept(q, h) ==
    /\ Arriving(q)
    /\ \E p \in Playbooks, i \in RequestedInventories :
         LET r == [playbook |-> p, inventory |-> i] IN
           /\ req' = [req EXCEPT ![q] = r]
           /\ runs' = logPlaybookStart(runs, nextRunID, r, clock)
    /\ rid' = [rid EXCEPT ![q] = nextRunID]
    /\ nextRunID' = nextRunID + 1
    /\ hpc' = [hpc EXCEPT ![q] = h]
    /\ tpc' = [tpc EXCEPT ![q] = "wait"]
    /\ UNCHANGED unitVars
    /\ UNCHANGED << clock, mutex, invs, logs, nextLogID, checks, nextCheckID,
                    tStart, tRes, tLog, checkTaskVars >>

\* runPlaybookHandler up to and including the go statement
runPlaybookAccept(q) == Accept(q, "spawned")

\* the rest of runPlaybookHandler: it writes {"status": "accepted",
\* "run_id": runID} and returns
runPlaybookRespond(q) ==
    /\ hpc[q] = "spawned"
    /\ hpc' = [hpc EXCEPT ![q] = "returned"]
    /\ UNCHANGED unitVars
    /\ UNCHANGED << clock, mutex, storeVars, req, rid, runTaskVars, checkTaskVars >>

\* runPlaybookHandler on an existing playbook, taken as one step
runPlaybookHandler(q) == Accept(q, "returned")

\* mutant of runPlaybookStoreError: the return after http.Error is missing,
\* so the go statement is reached with runID 0
runPlaybookStoreErrorNoReturn(q) ==
    /\ Arriving(q)
    /\ \E p \in Playbooks, i \in RequestedInventories :
         req' = [req EXCEPT ![q] = [playbook |-> p, inventory |-> i]]
    /\ hpc' = [hpc EXCEPT ![q] = "error"]
    /\ tpc' = [tpc EXCEPT ![q] = "wait"]
    /\ UNCHANGED unitVars
    /\ UNCHANGED << clock, mutex, storeVars, rid, tStart, tRes, tLog,
                    checkTaskVars >>

\* logPlaybookStart returns an error (db.Create failed, nothing was
\* written): 500 Internal server error, return
runPlaybookStoreError(q) ==
    /\ Arriving(q)
    /\ \E p \in Playbooks, i \in RequestedInventories :
         req' = [req EXCEPT ![q] = [playbook |-> p, inventory |-> i]]
    /\ hpc' = [hpc EXCEPT ![q] = "error"]
    /\ UNCHANGED unitVars
    /\ UNCHANGED << clock, mutex, storeVars, rid, runTaskVars, checkTaskVars >>

(* ----------------------- POST /api/run: goroutine ---------------------- *)

\* mutant of logExecution: the row of the same playbook is overwritten when
\* there is one (an upsert keyed by playbook)
logExecutionUpsert(tbl, id, playbook, success, output, errorMsg, startTime, endTime, duration) ==
    LET row == [ playbook |-> playbook,
                 success |-> success,
                 output |-> output,
                 error |-> errorMsg,
                 start_time |-> startTime,
                 end_time |-> endTime,
                 duration |-> duration ]
        same == {k \in DOMAIN tbl : tbl[k].playbook = playbook}
    IN IF same = {}
       THEN Insert(tbl, id, row)
       ELSE [k \in DOMAIN tbl |-> IF k \in same THEN row ELSE tbl[k]]

\* logExecution: db.Create of one log row
logExecution(tbl, id, playbook, success, output, errorMsg, startTime, endTime, duration) ==
    Insert(tbl, id,
           [ playbook |-> playbook,
             success |-> success,
             output |-> output,
             error |-> errorMsg,
             start_time |-> startTime,
             end_time |-> endTime,
             duration |-> duration ])

\* mutant of updatePlaybookRun: the UPDATE selects by the playbook of the run
\* instead of its id
updatePlaybookRunByPlaybook(tbl, runID, status, output, errorMsg, now) ==
    IF runID \notin DOMAIN tbl
    THEN tbl
    ELSE [k \in DOMAIN tbl |->
            IF tbl[k].playbook = tbl[runID].playbook
            THEN [tbl[k] EXCEPT !.status = status,
                                !.output = output,
                                !.error = errorMsg,
                                !.end_time = Some(now),
                                !.duration = Some(now - tbl[k].start_time)]
            ELSE tbl[k]]

\* mutant of updatePlaybookRun: updates["duration"] is never set
updatePlaybookRunNoDuration(tbl, runID, status, output, errorMsg, now) ==
    IF runID \notin DOMAIN tbl
    THEN tbl
    ELSE [tbl EXCEPT ![runID] =
            IF status # "started"
            THEN [@ EXCEPT !.status = status,
                           !.output = output,
                           !.error = errorMsg,
                           !.end_time = Some(now)]
            ELSE [@ EXCEPT !.status = status,
                           !.output = output,
                           !.error = errorMsg]]

\* mutant of updatePlaybookRun: duration is startTime.Sub(endTime)
updatePlaybookRunSwapped(tbl, runID, status, output, errorMsg, now) ==
    IF runID \notin DOMAIN tbl
    THEN tbl
    ELSE LET startTime == tbl[runID].start_time IN
         [tbl EXCEPT ![runID] =
            IF status # "started"
            THEN [@ EXCEPT !.status = status,
                           !.output = output,
                           !.error = errorMsg,
                           !.end_time = Some(now),
                           !.duration = Some(startTime - now)]
            ELSE [@ EXCEPT !.status = status,
                           !.output = output,
                           !.error = errorMsg]]

\* mutant of updatePlaybookRun: a run that is not in the table is written
\* anew with the terminal values (an upsert)
updatePlaybookRunUpsert(tbl, runID, status, output, errorMsg, now) ==
    IF runID \notin DOMAIN tbl
    THEN Insert(tbl, runID,
                [ playbook |-> "",
                  inventory |-> "",
                  status |-> status,
                  start_time |-> now,
                  end_time |-> Some(now),
                  duration |-> Some(0),
                  output |-> output,
                  error |-> errorMsg ])
    ELSE LET startTime == tbl[runID].start_time IN
         [tbl EXCEPT ![runID] =
            IF status # "started"
            THEN [@ EXCEPT !.status = status,
                           !.output = output,
                           !.error = errorMsg,
                           !.end_time = Some(now),
                           !.duration = Some(now - startTime)]
            ELSE [@ EXCEPT !.status = status,
                           !.output = output,
                           !.error = errorMsg]]

\* updatePlaybookRun: for a status other than started, end_time is now and
\* duration is now minus the stored start_time; one UPDATE ... WHERE id = runID,
\* which touches no row when the run is not visible
updatePlaybookRun(tbl, runID, status, output, errorMsg, now) ==
    IF runID \notin DOMAIN tbl
    THEN tbl
    ELSE LET startTime == tbl[runID].start_time IN
         [tbl EXCEPT ![runID] =
            IF status # "started"
            THEN [@ EXCEPT !.status = status,
                           !.output = output,
                           !.error = errorMsg,
                           !.end_time = Some(now),
                           !.duration = Some(now - startTime)]
            ELSE [@ EXCEPT !.status = status,
                           !.output = output,
                           !.error = errorMsg]]

\* runAnsiblePlaybook up to the subprocess: with an inventory name, the
\* content is fetched first and a failure returns before anything is run
InventoryResolves(q) ==
    req[q].inventory = "" \/ getInventoryContent(invs, req[q].inventory).err = ""

\* mutant of runTaskLock: the goroutine does not wait for the mutex
runTaskLockNoWait(q) ==
    /\ tpc[q] = "wait"
    /\ mutex' = q
    /\ tStart' = [tStart EXCEPT ![q] = clock]
    /\ tpc' = [tpc EXCEPT ![q] = IF InventoryResolves(q) THEN "exec" ELSE "nolaunch"]
    /\ UNCHANGED unitVars
    /\ UNCHANGED << clock, storeVars, handlerVars, tRes, tLog, checkTaskVars >>

\* mutant of runTaskLock: runAnsiblePlaybook goes on to the command when
\* getInventoryContent returns an error
runTaskLockNoResolve(q) ==
    /\ tpc[q] = "wait"
    /\ mutex = 0
    /\ mutex' = q
    /\ tStart' = [tStart EXCEPT ![q] = clock]
    /\ tpc' = [tpc EXCEPT ![q] = "exec"]
    /\ UNCHANGED unitVars
    /\ UNCHANGED << clock, storeVars, handlerVars, tRes, tLog, checkTaskVars >>

\* mutant of runTaskLock: startTime is the start_time of the run row
\* instead of time.Now()
runTaskLockAcceptTime(q) ==
    /\ tpc[q] = "wait"
    /\ mutex = 0
    /\ mutex' = q
    /\ tStart' = [tStart EXCEPT ![q] =
                    IF rid[q] \in DOMAIN runs
                    THEN runs[rid[q]].start_time ELSE clock]
    /\ tpc' = [tpc EXCEPT ![q] = IF InventoryResolves(q) THEN "exec" ELSE "nolaunch"]
    /\ UNCHANGED unitVars
    /\ UNCHANGED << clock, storeVars, handlerVars, tRes, tLog, checkTaskVars >>

\* mutex.Lock() succeeds; startTime := time.Now(); runAnsiblePlaybook begins
runTaskLock(q) ==
    /\ tpc[q] = "wait"
    /\ mutex = 0
    /\ mutex' = q
    /\ tStart' = [tStart EXCEPT ![q] = clock]
    /\ tpc' = [tpc EXCEPT ![q] = IF InventoryResolves(q) THEN "exec" ELSE "nolaunch"]
    /\ UNCHANGED unitVars
    /\ UNCHANGED << clock, storeVars, handlerVars, tRes, tLog, checkTaskVars >>

\* what runAnsiblePlaybook returns to the goroutine of request q
RunResults(q) ==
    IF tpc[q] = "nolaunch"
    THEN { [output |-> "", err |-> "failed to get inventory: record not found"] }
    ELSE ExecResults

\* mutant of runTaskExec: logExecution is called only when err == nil
runTaskExecLogOnSuccess(q) ==
    /\ tpc[q] \in {"exec", "nolaunch"}
    /\ \E res \in RunResults(q) :
         /\ tRes' = [tRes EXCEPT ![q] = res]
         /\ IF res.err = ""
            THEN /\ logs' = logExecution(logs, nextLogID, req[q].playbook, TRUE,
                                         res.output, res.err, tStart[q], clock,
                                         clock - tStart[q])
                 /\ tLog' = [tLog EXCEPT ![q] = nextLogID]
                 /\ nextLogID' = nextLogID + 1
            ELSE UNCHANGED << logs, tLog, nextLogID >>
    /\ tpc' = [tpc EXCEPT ![q] = "logged"]
    /\ tStart' = [tStart EXCEPT ![q] = 0]
    /\ UNCHANGED unitVars
    /\ UNCHANGED << clock, mutex, invs, runs, nextRunID, checks, nextCheckID,
                    handlerVars, checkTaskVars >>

\* mutant of runTaskExec: the output is passed on only when err == nil
runTaskExecDropOutput(q) ==
    /\ tpc[q] \in {"exec", "nolaunch"}
    /\ \E res \in RunResults(q) :
         LET kept == IF res.err = "" THEN res.output ELSE "" IN
           /\ tRes' = [tRes EXCEPT ![q] = [output |-> kept, err |-> res.err]]
           /\ logs' = logExecution(logs, nextLogID, req[q].playbook, res.err = "",
                                   kept, res.err, tStart[q], clock,
                                   clock - tStart[q])
    /\ tLog' = [tLog EXCEPT ![q] = nextLogID]
    /\ nextLogID' = nextLogID + 1
    /\ tpc' = [tpc EXCEPT ![q] = "logged"]
    /\ tStart' = [tStart EXCEPT ![q] = 0]
    /\ UNCHANGED unitVars
    /\ UNCHANGED << clock, mutex, invs, runs, nextRunID, checks, nextCheckID,
                    handlerVars, checkTaskVars >>

\* mutant of runTaskExec: updatePlaybookRun is called where logExecution
\* should be, so the run is terminal before any log row is written
runTaskExecUpdateFirst(q) ==
    /\ tpc[q] \in {"exec", "nolaunch"}
    /\ \E res \in RunResults(q) :
         /\ tRes' = [tRes EXCEPT ![q] = res]
         /\ runs' = IF res.err # ""
                    THEN updatePlaybookRun(runs, rid[q], "failed", res.output,
                                           res.err, clock)
                    ELSE updatePlaybookRun(runs, rid[q], "completed", res.output,
                                           "", clock)
    /\ tpc' = [tpc EXCEPT ![q] = "logged"]
    /\ tStart' = [tStart EXCEPT ![q] = 0]
    /\ UNCHANGED unitVars
    /\ UNCHANGED << clock, mutex, invs, nextRunID, logs, nextLogID, checks,
                    nextCheckID, handlerVars, tLog, checkTaskVars >>

\* mutant of runTaskExec: the mutex is unlocked as soon as
\* runAnsiblePlaybook has returned, before the two writes are done
runTaskExecUnlockEarly(q) ==
    /\ tpc[q] \in {"exec", "nolaunch"}
    /\ \E res \in RunResults(q) :
         /\ tRes' = [tRes EXCEPT ![q] = res]
         /\ logs' = logExecution(logs, nextLogID, req[q].playbook, res.err = "",
                                 res.output, res.err, tStart[q], clock,
                                 clock - tStart[q])
    /\ tLog' = [tLog EXCEPT ![q] = nextLogID]
    /\ nextLogID' = nextLogID + 1
    /\ tpc' = [tpc EXCEPT ![q] = "logged"]
    /\ tStart' = [tStart EXCEPT ![q] = 0]
    /\ mutex' = 0
    /\ UNCHANGED unitVars
    /\ UNCHANGED << clock, invs, runs, nextRunID, checks, nextCheckID,
                    handlerVars, checkTaskVars >>

\* runAnsiblePlaybook returns; endTime := time.Now(); logExecution
runTaskExec(q) ==
    /\ tpc[q] \in {"exec", "nolaunch"}
    /\ \E res \in RunResults(q) :
         /\ tRes' = [tRes EXCEPT ![q] = res]
         /\ logs' = logExecution(logs, nextLogID, req[q].playbook, res.err = "",
                                 res.output, res.err, tStart[q], clock,
                                 clock - tStart[q])
    /\ tLog' = [tLog EXCEPT ![q] = nextLogID]
    /\ nextLogID' = nextLogID + 1
    /\ tpc' = [tpc EXCEPT ![q] = "logged"]
    /\ tStart' = [tStart EXCEPT ![q] = 0]
    /\ UNCHANGED unitVars
    /\ UNCHANGED << clock, mutex, invs, runs, nextRunID, checks, nextCheckID,
                    handlerVars, checkTaskVars >>

\* mutant of runTaskFinalize: the branches of the final if are exchanged
runTaskFinalizeSwapped(q) ==
    /\ tpc[q] = "logged"
    /\ runs' = IF tRes[q].err = ""
               THEN updatePlaybookRun(runs, rid[q], "failed", tRes[q].output,
                                      tRes[q].err, clock)
               ELSE updatePlaybookRun(runs, rid[q], "completed", tRes[q].output,
                                      "", clock)
    /\ mutex' = 0
    /\ tpc' = [tpc EXCEPT ![q] = "done"]
    /\ tRes' = [tRes EXCEPT ![q] = NoResult]
    /\ UNCHANGED unitVars
    /\ UNCHANGED << clock, invs, nextRunID, logs, nextLogID, checks, nextCheckID,
                    handlerVars, tStart, tLog, checkTaskVars >>

\* mutant of runTaskFinalize: a run that failed is queued for another attempt
runTaskFinalizeRetry(q) ==
    /\ tpc[q] = "logged"
    /\ runs' = IF tRes[q].err # ""
               THEN updatePlaybookRun(runs, rid[q], "failed", tRes[q].output,
                                      tRes[q].err, clock)
               ELSE updatePlaybookRun(runs, rid[q], "completed", tRes[q].output,
                                      "", clock)
    /\ mutex' = 0
    /\ tpc' = [tpc EXCEPT ![q] = IF tRes[q].err # "" THEN "wait" ELSE "done"]
    /\ tRes' = [tRes EXCEPT ![q] = NoResult]
    /\ tLog' = [tLog EXCEPT ![q] = IF tRes[q].err # "" THEN 0 ELSE @]
    /\ UNCHANGED unitVars
    /\ UNCHANGED << clock, invs, nextRunID, logs, nextLogID, checks, nextCheckID,
                    handlerVars, tStart, checkTaskVars >>

\* mutant of runTaskFinalize: the deferred mutex.Unlock() is missing
runTaskFinalizeNoUnlock(q) ==
    /\ tpc[q] = "logged"
    /\ runs' = IF tRes[q].err # ""
               THEN updatePlaybookRun(runs, rid[q], "failed", tRes[q].output,
                                      tRes[q].err, clock)
               ELSE updatePlaybookRun(runs, rid[q], "completed", tRes[q].output,
                                      "", clock)
    /\ tpc' = [tpc EXCEPT ![q] = "done"]
    /\ tRes' = [tRes EXCEPT ![q] = NoResult]
    /\ UNCHANGED unitVars
    /\ UNCHANGED << clock, mutex, invs, nextRunID, logs, nextLogID, checks,
                    nextCheckID, handlerVars, tStart, tLog, checkTaskVars >>

\* updatePlaybookRun with failed or completed, then the deferred mutex.Unlock()
runTaskFinalize(q) ==
    /\ tpc[q] = "logged"
    /\ runs' = IF tRes[q].err # ""
               THEN updatePlaybookRun(runs, rid[q], "failed", tRes[q].output,
                                      tRes[q].err, clock)
               ELSE updatePlaybookRun(runs, rid[q], "completed", tRes[q].output,
                                      "", clock)
    /\ mutex' = 0
    /\ tpc' = [tpc EXCEPT ![q] = "done"]
    /\ tRes' = [tRes EXCEPT ![q] = NoResult]
    /\ UNCHANGED unitVars
    /\ UNCHANGED << clock, invs, nextRunID, logs, nextLogID, checks, nextCheckID,
                    handlerVars, tStart, tLog, checkTaskVars >>

\* mutant of runTaskExecLogError: the goroutine returns on the error of
\* logExecution, so updatePlaybookRun is never called
runTaskExecLogErrorReturn(q) ==
    /\ tpc[q] \in {"exec", "nolaunch"}
    /\ mutex' = 0
    /\ tpc' = [tpc EXCEPT ![q] = "done"]
    /\ tStart' = [tStart EXCEPT ![q] = 0]
    /\ UNCHANGED unitVars
    /\ UNCHANGED << clock, storeVars, handlerVars, tRes, tLog, checkTaskVars >>

\* runTaskExec when logExecution returns an error: db.Create wrote no row,
\* the error is dropped (_ = logExecution(...)) and the goroutine goes on
runTaskExecLogError(q) ==
    /\ tpc[q] \in {"exec", "nolaunch"}
    /\ \E res \in RunResults(q) :
         tRes' = [tRes EXCEPT ![q] = res]
    /\ tpc' = [tpc EXCEPT ![q] = "logged"]
    /\ tStart' = [tStart EXCEPT ![q] = 0]
    /\ UNCHANGED unitVars
    /\ UNCHANGED << clock, mutex, storeVars, handlerVars, tLog, checkTaskVars >>

\* mutant of runTaskFinalizeStoreError: the goroutine ends on the error of
\* updatePlaybookRun without unlocking the mutex
runTaskFinalizeStoreErrorNoUnlock(q) ==
    /\ tpc[q] = "logged"
    /\ tpc' = [tpc EXCEPT ![q] = "done"]
    /\ tRes' = [tRes EXCEPT ![q] = NoResult]
    /\ UNCHANGED unitVars
    /\ UNCHANGED << clock, mutex, storeVars, handlerVars, tStart, tLog,
                    checkTaskVars >>

\* runTaskFinalize when updatePlaybookRun returns an error: the Pluck or
\* the Updates failed and no row was changed, the error is dropped
\* (_ = updatePlaybookRun(...)), then the deferred mutex.Unlock()
runTaskFinalizeStoreError(q) ==
    /\ tpc[q] = "logged"
    /\ mutex' = 0
    /\ tpc' = [tpc EXCEPT ![q] = "done"]
    /\ tRes' = [tRes EXCEPT ![q] = NoResult]
    /\ UNCHANGED unitVars
    /\ UNCHANGED << clock, storeVars, handlerVars, tStart, tLog, checkTaskVars >>

(* ------------------------------ inventories ---------------------------- *)

\* createInventoryHandler: db.Create; the unique index on name rejects a
\* name that any row carries, soft-deleted rows included (500, nothing written)
createInventoryHandler ==
    /\ \E n \in InvNames, c \in InvContents :
         /\ n \notin DOMAIN invs
         /\ invs' = Insert(invs, n, [id |-> Cardinality(DOMAIN invs) + 1,
                                     content |-> c, deleted |-> FALSE])
    /\ UNCHANGED unitVars
    /\ UNCHANGED << clock, mutex, runs, nextRunID, logs, nextLogID, checks,
                    nextCheckID, handlerVars, runTaskVars, checkTaskVars >>

\* updateInventoryHandler: First by name (404 when not live), then Save
updateInventoryHandler ==
    /\ \E n \in InvNames, c \in InvContents :
         /\ InvLive(invs, n)
         /\ invs' = [invs EXCEPT ![n].content = c]
    /\ UNCHANGED unitVars
    /\ UNCHANGED << clock, mutex, runs, nextRunID, logs, nextLogID, checks,
                    nextCheckID, handlerVars, runTaskVars, checkTaskVars >>

\* deleteInventoryHandler: db.Where("name = ?", name).Delete(&Inventory{})
deleteInventoryHandler ==
    /\ \E n \in InvNames :
         /\ InvLive(invs, n)
         /\ invs' = [invs EXCEPT ![n].deleted = TRUE]
    /\ UNCHANGED unitVars
    /\ UNCHANGED << clock, mutex, runs, nextRunID, logs, nextLogID, checks,
                    nextCheckID, handlerVars, runTaskVars, checkTaskVars >>

(* -------------------- POST /api/inventories/{name}/check --------------- *)

\* checkInventoryHandler: the inventory is looked up, a pending check is
\* created and the goroutine is started
checkInventoryHandler(c) ==
    /\ c = nextCheckID
    /\ \E n \in InvNames :
         /\ InvLive(invs, n)
         /\ checks' = Insert(checks, c,
                             [ inventory_id |-> invs[n].id,
                               status |-> "pending",
                               results |-> None,
                               error |-> "",
                               started_at |-> clock,
                               completed_at |-> None ])
         /\ cname' = [cname EXCEPT ![c] = n]
    /\ nextCheckID' = nextCheckID + 1
    /\ cpc' = [cpc EXCEPT ![c] = "spawned"]
    /\ UNCHANGED unitVars
    /\ UNCHANGED << clock, mutex, invs, runs, nextRunID, logs, nextLogID,
                    handlerVars, runTaskVars >>

\* checkInventoryHandler when db.Create(&check) returns an error (nothing
\* was written): 500, return; c is the id the next check will get
checkInventoryStoreError(c) ==
    /\ c = nextCheckID
    /\ cpc[c] = "none"
    /\ \E n \in InvNames : InvLive(invs, n)
    /\ cpc' = [cpc EXCEPT ![c] = "error"]
    /\ UNCHANGED unitVars
    /\ UNCHANGED << clock, mutex, storeVars, handlerVars, runTaskVars, cname >>

\* mutant of checkInventoryNotFound: the return after http.Error is missing,
\* so the check is created from the zero Inventory and the goroutine started
checkInventoryNotFoundNoReturn(c) ==
    /\ c = nextCheckID
    /\ cpc[c] = "none"
    /\ \E n \in InvNames :
         /\ ~InvLive(invs, n)
         /\ checks' = Insert(checks, c,
                             [ inventory_id |-> 0,
                               status |-> "pending",
                               results |-> None,
                               error |-> "",
                               started_at |-> clock,
                               completed_at |-> None ])
         /\ cname' = [cname EXCEPT ![c] = n]
    /\ nextCheckID' = nextCheckID + 1
    /\ cpc' = [cpc EXCEPT ![c] = "spawned"]
    /\ UNCHANGED unitVars
    /\ UNCHANGED << clock, mutex, invs, runs, nextRunID, logs, nextLogID,
                    handlerVars, runTaskVars >>

\* checkInventoryHandler when First finds no live inventory of that name
\* (gorm.ErrRecordNotFound): 404 Inventory not found, return; c is the id
\* the next check will get
checkInventoryNotFound(c) ==
    /\ c = nextCheckID
    /\ cpc[c] = "none"
    /\ \E n \in InvNames : ~InvLive(invs, n)
    /\ cpc' = [cpc EXCEPT ![c] = "notfound"]
    /\ UNCHANGED unitVars
    /\ UNCHANGED << clock, mutex, storeVars, handlerVars, runTaskVars, cname >>

\* db.Model(...).Where("id = ?", id).Update("status", running)
SetCheckStatus(tbl, id, status) ==
    IF id \in DOMAIN tbl THEN [tbl EXCEPT ![id].status = status] ELSE tbl

\* mutant of checkTaskStart: the probe goroutine starts only while the run
\* mutex is free
checkTaskStartLocked(c) ==
    /\ cpc[c] = "spawned"
    /\ mutex = 0
    /\ checks' = SetCheckStatus(checks, c, "running")
    /\ cpc' = [cpc EXCEPT ![c] =
                 IF getInventoryContent(invs, cname[c]).err = ""
                 THEN "exec" ELSE "noinv"]
    /\ UNCHANGED unitVars
    /\ UNCHANGED << clock, mutex, invs, runs, nextRunID, logs, nextLogID,
                    nextCheckID, handlerVars, runTaskVars, cname >>

\* mutant of checkTaskStart: the Update of status to running is missing
checkTaskStartNoRunning(c) ==
    /\ cpc[c] = "spawned"
    /\ cpc' = [cpc EXCEPT ![c] =
                 IF getInventoryContent(invs, cname[c]).err = ""
                 THEN "exec" ELSE "noinv"]
    /\ UNCHANGED unitVars
    /\ UNCHANGED << clock, mutex, invs, runs, nextRunID, logs, nextLogID,
                    checks, nextCheckID, handlerVars, runTaskVars, cname >>

\* the goroutine marks the check running and enters testInventoryHosts,
\* which fetches the inventory content before it runs anything
checkTaskStart(c) ==
    /\ cpc[c] = "spawned"
    /\ checks' = SetCheckStatus(checks, c, "running")
    /\ cpc' = [cpc EXCEPT ![c] =
                 IF getInventoryContent(invs, cname[c]).err = ""
                 THEN "exec" ELSE "noinv"]
    /\ UNCHANGED unitVars
    /\ UNCHANGED << clock, mutex, invs, runs, nextRunID, logs, nextLogID,
                    nextCheckID, handlerVars, runTaskVars, cname >>

\* what testInventoryHosts returns to the goroutine of check c
CheckResults(c) ==
    IF cpc[c] = "noinv"
    THEN { [results |-> None, err |-> "failed to get inventory: record not found"] }
    ELSE ProbeResults

\* mutant of FinalizeCheck: updates["results"] is set on the error branch
\* too, to an empty mapping
FinalizeCheckResultsAlways(tbl, id, res, now) ==
    IF id \notin DOMAIN tbl
    THEN tbl
    ELSE [tbl EXCEPT ![id] =
            IF res.err # ""
            THEN [@ EXCEPT !.completed_at = Some(now),
                           !.status = "failed",
                           !.error = res.err,
                           !.results = Some("")]
            ELSE [@ EXCEPT !.completed_at = Some(now),
                           !.status = "completed",
                           !.results = res.results]]

\* mutant of FinalizeCheck: the test of err is inverted
FinalizeCheckInverted(tbl, id, res, now) ==
    IF id \notin DOMAIN tbl
    THEN tbl
    ELSE [tbl EXCEPT ![id] =
            IF res.err = ""
            THEN [@ EXCEPT !.completed_at = Some(now),
                           !.status = "failed",
                           !.error = res.err]
            ELSE [@ EXCEPT !.completed_at = Some(now),
                           !.status = "completed",
                           !.results = res.results]]

\* the final Updates of the goroutine: completed_at, then failed with the
\* error text or completed with the results
FinalizeCheck(tbl, id, res, now) ==
    IF id \notin DOMAIN tbl
    THEN tbl
    ELSE [tbl EXCEPT ![id] =
            IF res.err # ""
            THEN [@ EXCEPT !.completed_at = Some(now),
                           !.status = "failed",
                           !.error = res.err]
            ELSE [@ EXCEPT !.completed_at = Some(now),
                           !.status = "completed",
                           !.results = res.results]]

\* testInventoryHosts returns and the goroutine writes the outcome
checkTaskFinish(c) ==
    /\ cpc[c] \in {"exec", "noinv"}
    /\ \E res \in CheckResults(c) :
         checks' = FinalizeCheck(checks, c, res, clock)
    /\ cpc' = [cpc EXCEPT ![c] = "done"]
    /\ UNCHANGED unitVars
    /\ UNCHANGED << clock, mutex, invs, runs, nextRunID, logs, nextLogID,
                    nextCheckID, handlerVars, runTaskVars, cname >>

(* --------------------------- parsePingResults -------------------------- *)

\* A field is the sequence of its characters; a line is the sequence of its
\* fields, which is what strings.Fields(line) returns, and a text is the
\* sequence of its lines, which is what strings.Split(output, "\n") returns.

TokHost == << "H", "o", "s", "t" >>
TokIs == << "i", "s" >>
TokQuote == << "'" >>
TokWeb1 == << "w", "e", "b", "1" >>
TokWeb2 == << "w", "e", "b", "2" >>
TokWeb3 == << "w", "e", "b", "3" >>
TokReachable == << "r", "e", "a", "c", "h", "a", "b", "l", "e" >>
TokUnreachable == << "u", "n" >> \o TokReachable
TokOk == << "o", "k", ":" >>
TokArrow == << "=", ">" >>
TokUp == << "u", "p" >>

\* 's' between single quotes
Quoted(s) == TokQuote \o s \o TokQuote

\* the line "Host <h> is '<s>'"
HostLine(h, s) == << TokHost, h, TokIs, Quoted(s) >>

\* lines that the captured output is made of
PingLines ==
    { HostLine(TokWeb1, TokReachable),
      HostLine(TokWeb2, TokUnreachable),
      << TokHost, TokWeb3, TokIs >>,
      << TokOk, TokWeb2, TokArrow, TokHost, TokIs, Quoted(TokReachable) >>,
      << TokOk, TokWeb1, TokArrow, TokWeb1, TokIs, TokReachable >>,
      << TokHost \o << "s" >>, TokWeb3, << "t", "h" >> \o TokIs, TokOk,
         TokArrow, TokUp >> }

\* texts of at most MaxLines lines
PingTexts == UNION { [1..n -> PingLines] : n \in 0..MaxLines }

\* sub occurs in the field
FieldContains(field, sub) ==
    \E i \in 0..(Len(field) - Len(sub)) :
        SubSeq(field, i + 1, i + Len(sub)) = sub

\* strings.Contains(line, sub) for a sub without white space
Contains(line, sub) ==
    \E k \in 1..Len(line) : FieldContains(line[k], sub)

\* strings.TrimRight(s, "'")
RECURSIVE TrimRight(_)
TrimRight(s) ==
    IF Len(s) > 0 /\ s[Len(s)] = "'"
    THEN TrimRight(SubSeq(s, 1, Len(s) - 1))
    ELSE s

\* results[host] = status
MapPut(m, host, status) ==
    [h \in DOMAIN m \cup {host} |-> IF h = host THEN status ELSE m[h]]

\* mutant of parsePingLoop: the two strings.Contains tests are missing
RECURSIVE parsePingLoopNoMarkers(_, _, _)
parsePingLoopNoMarkers(output, i, results) ==
    IF i > Len(output)
    THEN results
    ELSE LET line == output[i]
             parts == line
         IN parsePingLoopNoMarkers(output, i + 1,
                IF Len(parts) >= 6
                THEN MapPut(results, parts[2], TrimRight(parts[6]))
                ELSE results)

\* the loop of parsePingResults over lines i..Len(output), results so far
RECURSIVE parsePingLoop(_, _, _)
parsePingLoop(output, i, results) ==
    IF i > Len(output)
    THEN results
    ELSE LET line == output[i]
             parts == line
         IN parsePingLoop(output, i + 1,
                IF Contains(line, TokHost) /\ Contains(line, TokIs)
                   /\ Len(parts) >= 6
                THEN MapPut(results, parts[2], TrimRight(parts[6]))
                ELSE results)

\* parsePingResults(output): parts[1] is the host and parts[5] the status
\* (indices from 0 in the source, from 1 here)
parsePingResults(output) == parsePingLoop(output, 1, << >>)

\* return parsePingResults(string(output)), nil
testInventoryHostsParse ==
    /\ pingResults = None
    /\ pingResults' = Some(parsePingResults(pingOutput))
    /\ UNCHANGED << serviceVars, pingOutput, listing, tempVars >>

(* --------------------------- temporary files --------------------------- *)

\* os.CreateTemp gives every file a name of its own
TempName(k, pattern) == << k, pattern >>

\* the names in a list of deferred os.Remove calls
DeferredNames(deferred) == {deferred[i] : i \in 1..Len(deferred)}

\* the call returns with err: its deferred os.Remove calls run
TempReturn(k, err) ==
    /\ tmpFiles' = tmpFiles \ DeferredNames(calls[k].deferred)
    /\ calls' = [calls EXCEPT ![k].pc = "returned",
                              ![k].err = err,
                              ![k].deferred = << >>]

\* the call goes on to the next statement
TempGoOn(k, pc) ==
    /\ calls' = [calls EXCEPT ![k].pc = pc]
    /\ UNCHANGED tmpFiles

\* mutant of TempCreate: the defer os.Remove statement is missing
TempCreateNoDefer(k, fn, pattern, pc) ==
    /\ tmpFiles' = tmpFiles \cup {TempName(k, pattern)}
    /\ calls' = [calls EXCEPT
                   ![k].fn = fn,
                   ![k].pc = pc,
                   ![k].created = @ \cup {TempName(k, pattern)}]

\* os.CreateTemp succeeded and defer os.Remove(name) is registered
TempCreate(k, fn, pattern, pc) ==
    /\ tmpFiles' = tmpFiles \cup {TempName(k, pattern)}
    /\ calls' = [calls EXCEPT
                   ![k].fn = fn,
                   ![k].pc = pc,
                   ![k].deferred = << TempName(k, pattern) >> \o @,
                   ![k].created = @ \cup {TempName(k, pattern)}]

\* runAnsiblePlaybook with an inventory: os.CreateTemp("", "inventory-*.ini")
runAnsiblePlaybookCreateTemp(k) ==
    /\ calls[k].pc = "none"
    /\ \/ TempCreate(k, "runAnsiblePlaybook", "inventory-*.ini", "created")
       \/ /\ calls' = [calls EXCEPT
                         ![k].fn = "runAnsiblePlaybook",
                         ![k].pc = "returned",
                         ![k].err = "failed to create temp inventory file"]
          /\ UNCHANGED tmpFiles
    /\ UNCHANGED << serviceVars, parseVars, listing >>

\* tmpfile.WriteString(inventoryContent)
runAnsiblePlaybookWrite(k) ==
    /\ calls[k].fn = "runAnsiblePlaybook"
    /\ calls[k].pc = "created"
    /\ \/ TempGoOn(k, "written")
       \/ TempReturn(k, "failed to write inventory content")
    /\ UNCHANGED << serviceVars, parseVars, listing >>

\* tmpfile.Close()
runAnsiblePlaybookClose(k) ==
    /\ calls[k].fn = "runAnsiblePlaybook"
    /\ calls[k].pc = "written"
    /\ \/ TempGoOn(k, "closed")
       \/ TempReturn(k, "failed to close temp file")
    /\ UNCHANGED << serviceVars, parseVars, listing >>

\* cmd.CombinedOutput() and return string(output), err
runAnsiblePlaybookCommand(k) ==
    /\ calls[k].fn = "runAnsiblePlaybook"
    /\ calls[k].pc = "closed"
    /\ \/ TempReturn(k, "")
       \/ TempReturn(k, "exit status 2")
    /\ UNCHANGED << serviceVars, parseVars, listing >>

\* testInventoryHosts: os.CreateTemp("", "check-hosts-*.yml")
testInventoryHostsCreatePlaybook(k) ==
    /\ calls[k].pc = "none"
    /\ \/ TempCreate(k, "testInventoryHosts", "check-hosts-*.yml", "created")
       \/ /\ calls' = [calls EXCEPT
                         ![k].fn = "testInventoryHosts",
                         ![k].pc = "returned",
                         ![k].err = "failed to create temp playbook"]
          /\ UNCHANGED tmpFiles
    /\ UNCHANGED << serviceVars, parseVars, listing >>

\* tmpPlaybook.WriteString(playbookContent); tmpPlaybook.Close()
testInventoryHostsWritePlaybook(k) ==
    /\ calls[k].fn = "testInventoryHosts"
    /\ calls[k].pc = "created"
    /\ \/ TempGoOn(k, "written")
       \/ TempReturn(k, "failed to write playbook")
    /\ UNCHANGED << serviceVars, parseVars, listing >>

\* os.CreateTemp("", "inventory-*.ini")
testInventoryHostsCreateInventory(k) ==
    /\ calls[k].fn = "testInventoryHosts"
    /\ calls[k].pc = "written"
    /\ \/ TempCreate(k, "testInventoryHosts", "inventory-*.ini", "created2")
       \/ TempReturn(k, "failed to create temp inventory")
    /\ UNCHANGED << serviceVars, parseVars, listing >>

\* tmpInventory.WriteString(inventoryContent); tmpInventory.Close()
testInventoryHostsWriteInventory(k) ==
    /\ calls[k].fn = "testInventoryHosts"
    /\ calls[k].pc = "created2"
    /\ \/ TempGoOn(k, "written2")
       \/ TempReturn(k, "failed to write inventory")
    /\ UNCHANGED << serviceVars, parseVars, listing >>

\* cmd.CombinedOutput() and the return of the error or of the parsed map
testInventoryHostsCommand(k) ==
    /\ calls[k].fn = "testInventoryHosts"
    /\ calls[k].pc = "written2"
    /\ \/ TempReturn(k, "")
       \/ TempReturn(k, "ansible failed")
    /\ UNCHANGED << serviceVars, parseVars, listing >>

(* ------------------------------ the sweep ------------------------------ *)

\* time.Now().AddDate(0, 0, -cfg.Logging.RetentionDays)
Cutoff(now) == now - RetentionDays

\* db.Where("<col> < ?", cutoff).Delete(...): the rows that stay
KeepLogs(tbl, cutoff) ==
    Restrict(tbl, {k \in DOMAIN tbl : ~(tbl[k].start_time < cutoff)})

\* mutant of KeepRuns: the comparison with the cutoff is <= instead of <
KeepRunsInclusive(tbl, cutoff) ==
    Restrict(tbl, {k \in DOMAIN tbl : ~(tbl[k].start_time <= cutoff)})

\* mutant of KeepRuns: the sweep spares the runs that are still started
KeepRunsSparingStarted(tbl, cutoff) ==
    Restrict(tbl, {k \in DOMAIN tbl :
                     tbl[k].status = "started" \/ ~(tbl[k].start_time < cutoff)})

KeepRuns(tbl, cutoff) ==
    Restrict(tbl, {k \in DOMAIN tbl : ~(tbl[k].start_time < cutoff)})

KeepChecks(tbl, cutoff) ==
    Restrict(tbl, {k \in DOMAIN tbl : ~(tbl[k].started_at < cutoff)})

\* cleanupOldLogs, run by cron "@daily"
cleanupOldLogs ==
    /\ logs' = KeepLogs(logs, Cutoff(clock))
    /\ runs' = KeepRuns(runs, Cutoff(clock))
    /\ checks' = KeepChecks(checks, Cutoff(clock))
    /\ UNCHANGED unitVars
    /\ UNCHANGED << clock, mutex, invs, nextRunID, nextLogID, nextCheckID,
                    handlerVars, runTaskVars, checkTaskVars >>

\* the tables in the order in which cleanupOldLogs sweeps them
SweptTables == << "playbook_log", "playbook_run", "inventory_check" >>

\* cleanupOldLogs when the Delete on the k-th table returns an error: the
\* tables before it are swept, the error is logged and the function returns
cleanupOldLogsFailing ==
    /\ \E k \in 1..Len(SweptTables) :
         /\ logs' = IF k > 1 THEN KeepLogs(logs, Cutoff(clock)) ELSE logs
         /\ runs' = IF k > 2 THEN KeepRuns(runs, Cutoff(clock)) ELSE runs
         /\ checks' = checks
    /\ UNCHANGED unitVars
    /\ UNCHANGED << clock, mutex, invs, nextRunID, nextLogID, nextCheckID,
                    handlerVars, runTaskVars, checkTaskVars >>

(* ----------------------------- read handlers --------------------------- *)

\* listLogsHandler: Count and Find on playbook_log, nothing is written
listLogsHandler == UNCHANGED vars

\* getLogHandler: First on playbook_log, nothing is written
getLogHandler == UNCHANGED vars

\* getPlaybookRunsHandler: Count and Find on playbook_run, nothing is written
getPlaybookRunsHandler == UNCHANGED vars

(* ------------------------- listings, page by page ---------------------- *)

\* values of the query parameter page, character by character
PageParams ==
    { << >>, << "a", "b", "c" >>, << "0" >>, << "-", "1" >>, << "1" >>,
      << "2" >>, << "3" >>, << "9", "9", "9" >> }

\* values of the query parameter playbook ("" is no filter)
PlaybookFilters == {"", "deploy.yml", "missing.yml"}

DigitVal ==
    [ c \in {"0", "1", "2", "3", "4", "5", "6", "7", "8", "9"} |->
        CASE c = "0" -> 0 [] c = "1" -> 1 [] c = "2" -> 2 [] c = "3" -> 3
          [] c = "4" -> 4 [] c = "5" -> 5 [] c = "6" -> 6 [] c = "7" -> 7
          [] c = "8" -> 8 [] c = "9" -> 9 ]

IsDigits(str) ==
    /\ Len(str) > 0
    /\ \A i \in 1..Len(str) : str[i] \in DOMAIN DigitVal

RECURSIVE DigitsValue(_)
DigitsValue(str) ==
    IF str = << >>
    THEN 0
    ELSE 10 * DigitsValue(SubSeq(str, 1, Len(str) - 1)) + DigitVal[str[Len(str)]]

\* page, _ := strconv.Atoi(s): the number, or 0 when s is not one
Atoi(str) ==
    IF str # << >> /\ str[1] \in {"+", "-"}
    THEN IF IsDigits(Tail(str))
         THEN (IF str[1] = "-" THEN -1 ELSE 1) * DigitsValue(Tail(str))
         ELSE 0
    ELSE IF IsDigits(str) THEN DigitsValue(str) ELSE 0

\* if page < 1 { page = 1 }
FloorPage(page) == IF page < 1 THEN 1 ELSE page

\* (int(totalCount) + PageSize - 1) / PageSize
TotalPages(totalCount) == (totalCount + PageSize - 1) \div PageSize

\* mutant of ClampPage: the page is not clamped
ClampPageNone(page, totalPages) == page

\* if page > totalPages && totalPages > 0 { page = totalPages }
ClampPage(page, totalPages) ==
    IF page > totalPages /\ totalPages > 0 THEN totalPages ELSE page

\* the table a listing handler reads
ListedTable(t) == IF t = "playbook_log" THEN logs ELSE runs

\* query.Where("playbook = ?", playbookFilter): ids of the rows selected
Filtered(tbl, playbook) ==
    {id \in DOMAIN tbl : playbook = "" \/ tbl[id].playbook = playbook}

\* Order("start_time DESC"): the ids in that order; among rows of equal
\* start_time the later id comes first
RECURSIVE OrderDesc(_, _)
OrderDesc(tbl, ids) ==
    IF ids = {}
    THEN << >>
    ELSE LET first == CHOOSE a \in ids :
                        \A b \in ids :
                           \/ tbl[a].start_time > tbl[b].start_time
                           \/ /\ tbl[a].start_time = tbl[b].start_time
                              /\ a >= b
         IN << first >> \o OrderDesc(tbl, ids \ {first})

\* Limit(PageSize).Offset((page - 1) * PageSize) on the ordered ids
PageRows(ordered, page) ==
    LET offset == (page - 1) * PageSize
        last == IF offset + PageSize < Len(ordered)
                THEN offset + PageSize ELSE Len(ordered)
    IN SubSeq(ordered, offset + 1, last)

\* a listing handler up to query.Count: the page parameter, the filter,
\* the count, the number of pages and the clamped page
listCount(t) ==
    /\ listing.pc \in {"idle", "done"}
    /\ \E param \in PageParams, playbook \in PlaybookFilters :
         LET totalCount == Cardinality(Filtered(ListedTable(t), playbook))
             totalPages == TotalPages(totalCount)
         IN listing' = [ pc |-> "counted", table |-> t, param |-> param,
                         playbook |-> playbook,
                         page |-> ClampPage(FloorPage(Atoi(param)), totalPages),
                         totalCount |-> totalCount,
                         totalPages |-> totalPages,
                         rows |-> << >> ]
    /\ UNCHANGED << serviceVars, parseVars, tempVars >>

\* the rest of the handler: query.Order(...).Limit(...).Offset(...).Find
\* and the response
listFind(t) ==
    /\ listing.pc = "counted"
    /\ listing.table = t
    /\ listing' = [listing EXCEPT
                     !.pc = "done",
                     !.rows = PageRows(OrderDesc(ListedTable(t),
                                           Filtered(ListedTable(t), listing.playbook)),
                                       listing.page)]
    /\ UNCHANGED << serviceVars, parseVars, tempVars >>

listLogsCount == listCount("playbook_log")

listLogsFind == listFind("playbook_log")

getPlaybookRunsCount == listCount("playbook_run")

getPlaybookRunsFind == listFind("playbook_run")

(* --------------------------- the specifications ------------------------ *)

\* the orchestrator: runs, the clock and the sweep
Next ==
    \/ Tick
    \/ \E q \in Requests : runPlaybookNotFound(q)
    \/ \E q \in Requests : runPlaybookHandler(q)
    \/ \E q \in Requests : runTaskLock(q)
    \/ \E q \in Requests : runTaskExec(q)
    \/ \E q \in Requests : runTaskFinalize(q)
    \/ cleanupOldLogs

Spec == Init /\ [][Next]_vars

\* runPlaybookHandler in two steps beside its goroutines, at one instant
HandlerNext ==
    \/ \E q \in Requests : runPlaybookNotFound(q)
    \/ \E q \in Requests : runPlaybookAccept(q)
    \/ \E q \in Requests : runPlaybookRespond(q)
    \/ \E q \in Requests : runTaskLock(q)
    \/ \E q \in Requests : runTaskExec(q)
    \/ \E q \in Requests : runTaskFinalize(q)

HandlerSpec == Init /\ [][HandlerNext]_vars

\* every handler of the service with one probe, at one instant
ServiceNext ==
    \/ \E q \in Requests : runPlaybookNotFound(q)
    \/ \E q \in Requests : runPlaybookHandler(q)
    \/ \E q \in Requests : runTaskLock(q)
    \/ \E q \in Requests : runTaskExec(q)
    \/ \E q \in Requests : runTaskFinalize(q)
    \/ createInventoryHandler
    \/ updateInventoryHandler
    \/ deleteInventoryHandler
    \/ checkInventoryHandler(1)
    \/ checkTaskStart(1)
    \/ checkTaskFinish(1)
    \/ listLogsHandler
    \/ getLogHandler
    \/ getPlaybookRunsHandler
    \/ cleanupOldLogs

ServiceSpec == Init /\ [][ServiceNext]_vars

\* one run request beside the probes and the inventory handlers
SlotNext ==
    \/ Tick
    \/ runPlaybookHandler(1)
    \/ runTaskLock(1)
    \/ runTaskExec(1)
    \/ runTaskFinalize(1)
    \/ createInventoryHandler
    \/ \E c \in CheckIDs : checkInventoryHandler(c)
    \/ \E c \in CheckIDs : checkTaskStart(c)
    \/ \E c \in CheckIDs : checkTaskFinish(c)

SlotSpec == Init /\ [][SlotNext]_vars


\* one run and one probe beside the clock and the sweep
SweepNext ==
    \/ Tick
    \/ runPlaybookHandler(1)
    \/ runTaskLock(1)
    \/ runTaskExec(1)
    \/ runTaskFinalize(1)
    \/ createInventoryHandler
    \/ checkInventoryHandler(1)
    \/ checkTaskStart(1)
    \/ checkTaskFinish(1)
    \/ cleanupOldLogs

SweepSpec == Init /\ [][SweepNext]_vars

\* the same with sweeps in which a Delete fails
SweepFaultNext ==
    \/ SweepNext
    \/ cleanupOldLogsFailing

SweepFaultSpec == Init /\ [][SweepFaultNext]_vars

\* runs and probes whose first insert may fail
FaultNext ==
    \/ \E q \in Requests : runPlaybookStoreError(q)
    \/ \E q \in Requests : runPlaybookHandler(q)
    \/ \E q \in Requests : runTaskLock(q)
    \/ \E q \in Requests : runTaskExec(q)
    \/ \E q \in Requests : runTaskFinalize(q)
    \/ createInventoryHandler
    \/ \E c \in CheckIDs : checkInventoryStoreError(c)
    \/ \E c \in CheckIDs : checkInventoryHandler(c)
    \/ \E c \in CheckIDs : checkTaskStart(c)
    \/ \E c \in CheckIDs : checkTaskFinish(c)

FaultSpec == Init /\ [][FaultNext]_vars

\* probes of inventories that come and go
ProbeNext ==
    \/ Tick
    \/ createInventoryHandler
    \/ updateInventoryHandler
    \/ deleteInventoryHandler
    \/ \E c \in CheckIDs : checkInventoryNotFound(c)
    \/ \E c \in CheckIDs : checkInventoryHandler(c)
    \/ \E c \in CheckIDs : checkTaskStart(c)
    \/ \E c \in CheckIDs : checkTaskFinish(c)

ProbeSpec == Init /\ [][ProbeNext]_vars

\* runs whose finalization writes may fail, beside inventories that come
\* and go
FinalizeFaultNext ==
    \/ \E q \in Requests : runPlaybookHandler(q)
    \/ \E q \in Requests : runTaskLock(q)
    \/ \E q \in Requests : runTaskExec(q)
    \/ \E q \in Requests : runTaskExecLogError(q)
    \/ \E q \in Requests : runTaskFinalize(q)
    \/ \E q \in Requests : runTaskFinalizeStoreError(q)
    \/ createInventoryHandler
    \/ deleteInventoryHandler

FinalizeFaultSpec == Init /\ [][FinalizeFaultNext]_vars

\* runs and a probe without sweeps and without store faults
LiveNext ==
    \/ \E q \in Requests : runPlaybookHandler(q)
    \/ \E q \in Requests : runTaskLock(q)
    \/ \E q \in Requests : runTaskExec(q)
    \/ \E q \in Requests : runTaskFinalize(q)
    \/ createInventoryHandler
    \/ checkInventoryHandler(1)
    \/ checkTaskStart(1)
    \/ checkTaskFinish(1)

\* a goroutine that can take a step takes it: the subprocess returns, the
\* store answers, and a goroutine blocked in mutex.Lock() gets the mutex if
\* it is free again and again
LiveFairness ==
    /\ \A q \in Requests :
         /\ SF_vars(runTaskLock(q))
         /\ WF_vars(runTaskExec(q))
         /\ WF_vars(runTaskFinalize(q))
    /\ WF_vars(checkTaskStart(1))
    /\ WF_vars(checkTaskFinish(1))

LiveSpec == Init /\ [][LiveNext]_vars /\ LiveFairness

\* parsePingResults applied to one captured text
ParseInit ==
    /\ ServiceInit
    /\ pingOutput \in PingTexts
    /\ pingResults = None
    /\ listing = NoListing
    /\ tmpFiles = {}
    /\ calls = [k \in Calls |-> NoCall]

ParseNext == testInventoryHostsParse

ParseSpec == ParseInit /\ [][ParseNext]_vars


\* the store after i runs that completed, each with its log row, written
\* on consecutive days; the service has been started on it
ListedRun(i) ==
    [ playbook |-> "deploy.yml", inventory |-> "", status |-> "completed",
      start_time |-> i, end_time |-> Some(i), duration |-> Some(0),
      output |-> "ok", error |-> "" ]

ListedLog(i) ==
    [ playbook |-> "deploy.yml", success |-> TRUE, output |-> "ok",
      error |-> "", start_time |-> i, end_time |-> i, duration |-> 0 ]

ListInit ==
    /\ \E n \in 0..MaxRows :
         /\ runs = [i \in 1..n |-> ListedRun(i)]
         /\ logs = [i \in 1..n |-> ListedLog(i)]
         /\ nextRunID = n + 1
         /\ nextLogID = n + 1
         /\ clock = n
    /\ mutex = 0
    /\ invs = << >>
    /\ checks = << >>
    /\ nextCheckID = 1
    /\ hpc = [q \in Requests |-> "idle"]
    /\ req = [q \in Requests |-> NoReq]
    /\ rid = [q \in Requests |-> 0]
    /\ tpc = [q \in Requests |-> "none"]
    /\ tStart = [q \in Requests |-> 0]
    /\ tRes = [q \in Requests |-> NoResult]
    /\ tLog = [q \in Requests |-> 0]
    /\ cpc = [c \in CheckIDs |-> "none"]
    /\ cname = [c \in CheckIDs |-> ""]
    /\ UnitInit

\* the two listing handlers on that store
ListNext ==
    \/ listLogsCount
    \/ listLogsFind
    \/ getPlaybookRunsCount
    \/ getPlaybookRunsFind

ListSpec == ListInit /\ [][ListNext]_vars

\* the two listing handlers beside the clock, the sweep and a submit
ListRaceNext ==
    \/ listLogsCount
    \/ listLogsFind
    \/ getPlaybookRunsCount
    \/ getPlaybookRunsFind
    \/ Tick
    \/ cleanupOldLogs
    \/ runPlaybookHandler(1)

ListRaceSpec == ListInit /\ [][ListRaceNext]_vars

\* calls of runAnsiblePlaybook and testInventoryHosts side by side, statement
\* by statement
TempNext ==
    \/ \E k \in Calls : runAnsiblePlaybookCreateTemp(k)
    \/ \E k \in Calls : runAnsiblePlaybookWrite(k)
    \/ \E k \in Calls : runAnsiblePlaybookClose(k)
    \/ \E k \in Calls : runAnsiblePlaybookCommand(k)
    \/ \E k \in Calls : testInventoryHostsCreatePlaybook(k)
    \/ \E k \in Calls : testInventoryHostsWritePlaybook(k)
    \/ \E k \in Calls : testInventoryHostsCreateInventory(k)
    \/ \E k \in Calls : testInventoryHostsWriteInventory(k)
    \/ \E k \in Calls : testInventoryHostsCommand(k)

TempSpec == Init /\ [][TempNext]_vars

(* ------------------------------- claims -------------------------------- *)

\* the goroutine of request q holds the mutex
Holding(q) == tpc[q] \in {"exec", "nolaunch", "logged"}

Terminal == {"completed", "failed"}

\* C1: at most one run goroutine is between mutex.Lock and mutex.Unlock,
\* hence at most one is inside runAnsiblePlaybook, and it is the holder of
\* the mutex; the execution intervals [start_time, end_time] that the log
\* rows of two requests record do not overlap, nor does a recorded interval
\* overlap the execution in progress.
C1_MutualExclusion ==
    /\ \A q1, q2 \in Requests : Holding(q1) /\ Holding(q2) => q1 = q2
    /\ \A q \in Requests : Holding(q) <=> mutex = q
    /\ \A q1, q2 \in Requests :
         (q1 # q2 /\ tLog[q1] \in DOMAIN logs /\ tLog[q2] \in DOMAIN logs)
           => \/ logs[tLog[q1]].end_time <= logs[tLog[q2]].start_time
              \/ logs[tLog[q2]].end_time <= logs[tLog[q1]].start_time
    /\ \A q1, q2 \in Requests :
         (tLog[q1] \in DOMAIN logs /\ tpc[q2] = "exec")
           => logs[tLog[q1]].end_time <= tStart[q2]

\* two accepted requests, one inside the subprocess call, the other blocked
\* in mutex.Lock, after time has passed
C1_Witness ==
    \E q1, q2 \in Requests :
        /\ tpc[q1] = "exec"
        /\ tpc[q2] = "wait"
        /\ clock > tStart[q1]

\* C2 as stated: at the moment runPlaybookHandler returns, the run with the
\* returned id is in the store in status started and its goroutine has not
\* yet taken the mutex.
C2_StartedWhenHandlerReturns ==
    [][ \A q \in Requests :
          (hpc[q] = "spawned" /\ hpc'[q] = "returned")
            => /\ rid[q] \in DOMAIN runs
               /\ runs[rid[q]].status = "started"
               /\ tpc[q] = "wait" ]_vars

\* C2 amended: the accepting step of runPlaybookHandler inserts a run in
\* status started under an id no earlier request was given, and only then
\* starts the goroutine; while that goroutine waits for the mutex the row,
\* if visible, is still started; the ids of different requests differ.
C2_StartedBeforeGoroutine ==
    [][ /\ \A q \in Requests :
             (hpc[q] = "idle" /\ hpc'[q] \in {"spawned", "returned"})
               => /\ tpc[q] = "none"
                  /\ tpc'[q] = "wait"
                  /\ rid'[q] \notin DOMAIN runs
                  /\ \A k \in Requests : rid[k] # rid'[q]
                  /\ rid'[q] \in DOMAIN runs'
                  /\ runs'[rid'[q]].status = "started"
        /\ \A q \in Requests :
             (tpc'[q] = "wait" /\ rid'[q] \in DOMAIN runs')
               => runs'[rid'[q]].status = "started"
        /\ \A q \in Requests : tpc'[q] # "none" => rid'[q] # 0
        /\ \A q1, q2 \in Requests :
             (q1 # q2 /\ rid'[q1] # 0) => rid'[q1] # rid'[q2] ]_vars

\* the second accepted request has its started row while its handler has
\* not returned yet, and the first request was answered
C2_Witness ==
    /\ hpc[1] = "returned"
    /\ hpc[2] = "spawned"
    /\ tpc[2] = "wait"
    /\ rid[1] # rid[2]
    /\ rid[2] \in DOMAIN runs
    /\ runs[rid[2]].status = "started"

C4_RunStateMachine ==
    [][ /\ \A id \in DOMAIN runs' \ DOMAIN runs : runs'[id].status = "started"
        /\ \A id \in DOMAIN runs \cap DOMAIN runs' :
             \/ runs'[id] = runs[id]
             \/ /\ runs[id].status = "started"
                /\ runs'[id].status \in Terminal
                /\ runs'[id].playbook = runs[id].playbook
                /\ runs'[id].inventory = runs[id].inventory
                /\ runs'[id].start_time = runs[id].start_time ]_vars

\* one run completed and another failed, both still in the store
C4_Witness ==
    \E a, b \in DOMAIN runs :
        /\ runs[a].status = "completed"
        /\ runs[b].status = "failed"

\* C5: the step in which the goroutine of a request finalizes its run takes
\* the row, when it is still visible, to failed with the executor's
\* non-empty error text if runAnsiblePlaybook returned an error, and to
\* completed with empty error text otherwise, in both cases with the
\* executor's output; a row leaves started in no other step.
C5_FinalizationOutcome ==
    [][ /\ \A q \in Requests :
             (tpc[q] = "logged" /\ tpc'[q] = "done" /\ rid[q] \in DOMAIN runs)
               => /\ rid[q] \in DOMAIN runs'
                  /\ runs'[rid[q]].output = tRes[q].output
                  /\ IF tRes[q].err # ""
                     THEN /\ runs'[rid[q]].status = "failed"
                          /\ runs'[rid[q]].error = tRes[q].err
                     ELSE /\ runs'[rid[q]].status = "completed"
                          /\ runs'[rid[q]].error = ""
        /\ \A id \in DOMAIN runs \cap DOMAIN runs' :
             runs'[id].status # runs[id].status
               => \E q \in Requests :
                     /\ rid[q] = id
                     /\ tpc[q] = "logged"
                     /\ tpc'[q] = "done"
        /\ \A id \in DOMAIN runs' :
             /\ runs'[id].status = "failed" => runs'[id].error # ""
             /\ runs'[id].status = "completed" => runs'[id].error = "" ]_vars

\* a run failed on a non-zero exit and kept the output of the subprocess
C5_Witness ==
    \E id \in DOMAIN runs :
        /\ runs[id].status = "failed"
        /\ runs[id].error = "exit status 2"
        /\ runs[id].output = "fatal"

\* C6: a goroutine has written a log row exactly when it is past
\* logExecution, and it wrote one row of its own; the number of log rows
\* ever written is the number of executions that returned and never exceeds
\* the number of accepted runs; the success flag is true exactly when the
\* executor returned no error, and once the run is finalized the flag is
\* true exactly when the run is completed.
C6_OneLogPerAttempt ==
    /\ \A q \in Requests : tLog[q] # 0 <=> tpc[q] \in {"logged", "done"}
    /\ \A q1, q2 \in Requests :
         (q1 # q2 /\ tLog[q1] # 0) => tLog[q1] # tLog[q2]
    /\ nextLogID - 1 = Cardinality({q \in Requests : tLog[q] # 0})
    /\ nextLogID - 1 <= nextRunID - 1
    /\ DOMAIN logs \subseteq {tLog[q] : q \in Requests}
    /\ \A q \in Requests :
         tLog[q] \in DOMAIN logs
           => /\ logs[tLog[q]].success <=> (logs[tLog[q]].error = "")
              /\ tpc[q] = "logged"
                   => (logs[tLog[q]].success <=> (tRes[q].err = ""))
              /\ (tpc[q] = "done" /\ rid[q] \in DOMAIN runs)
                   => (logs[tLog[q]].success
                         <=> (runs[rid[q]].status = "completed"))
    /\ \A q \in Requests :
         (rid[q] \in DOMAIN runs /\ runs[rid[q]].status \in Terminal)
           => tLog[q] # 0

\* two executions, one that succeeded and one that failed, left one log
\* row each
C6_Witness ==
    /\ Cardinality(DOMAIN logs) = 2
    /\ \E a, b \in DOMAIN logs : logs[a].success /\ ~logs[b].success
    /\ \A q \in Requests : tpc[q] = "done" /\ rid[q] \in DOMAIN runs

\* C7: a run in status started has neither end_time nor duration; a run in
\* status completed or failed has both.
C7_EndTimeAndDurationTogether ==
    \A id \in DOMAIN runs :
        /\ runs[id].status \in {"started"} \cup Terminal
        /\ runs[id].status = "started"
             => runs[id].end_time = None /\ runs[id].duration = None
        /\ runs[id].status \in Terminal
             => runs[id].end_time # None /\ runs[id].duration # None

\* a started run next to a finalized one
C7_Witness ==
    \E a, b \in DOMAIN runs :
        /\ runs[a].status = "started"
        /\ runs[a].end_time = None
        /\ runs[b].status \in Terminal
        /\ runs[b].end_time # None

\* C8: the start_time of a run is the clock value of its acceptance and
\* never changes; a run in a terminal status has end_time >= start_time and
\* duration = end_time - start_time.
C8_DurationIsEndMinusStart ==
    [][ /\ \A id \in DOMAIN runs' \ DOMAIN runs : runs'[id].start_time = clock
        /\ \A id \in DOMAIN runs \cap DOMAIN runs' :
             runs'[id].start_time = runs[id].start_time
        /\ \A id \in DOMAIN runs' :
             runs'[id].status \in Terminal
               => /\ runs'[id].end_time[1] >= runs'[id].start_time
                  /\ runs'[id].duration[1]
                       = runs'[id].end_time[1] - runs'[id].start_time ]_vars

\* a finalized run whose waiting and execution took time
C8_Witness ==
    \E id \in DOMAIN runs :
        /\ runs[id].status \in Terminal
        /\ runs[id].duration[1] > 0
        /\ runs[id].end_time[1] = runs[id].start_time + runs[id].duration[1]

\* C9: a log row that exists stays in the store with every field as it
\* was, whatever the step (submit, finalization, probe, query, inventory
\* create, update or delete); the one exception is a row whose start_time
\* is before the retention cutoff, which the sweep may remove.
C9_LogImmutable ==
    [][ \A id \in DOMAIN logs :
          \/ id \in DOMAIN logs' /\ logs'[id] = logs[id]
          \/ /\ id \notin DOMAIN logs'
             /\ logs[id].start_time < Cutoff(clock)
             /\ runs' = KeepRuns(runs, Cutoff(clock)) ]_vars

\* a log row is in the store while a second run is finalized, an inventory
\* was created and deleted and a probe has ended
C9_Witness ==
    /\ \E id \in DOMAIN logs :
         \E q \in Requests : tLog[q] # id /\ tpc[q] = "done"
    /\ \E n \in DOMAIN invs : invs[n].deleted
    /\ cpc[1] = "done"

\* C10: the probe goroutine never waits for the run mutex and never takes
\* it: whoever holds the mutex, a spawned probe can start and a started
\* probe can finish, and these steps leave the mutex as it is; only run
\* goroutines hold the mutex.
C10_ProbesOutsideSlot ==
    /\ \A c \in CheckIDs :
         /\ cpc[c] = "spawned" => ENABLED checkTaskStart(c)
         /\ cpc[c] \in {"exec", "noinv"} => ENABLED checkTaskFinish(c)
         /\ ~ ENABLED (checkTaskStart(c) /\ mutex' # mutex)
         /\ ~ ENABLED (checkTaskFinish(c) /\ mutex' # mutex)
         /\ ~ ENABLED (checkInventoryHandler(c) /\ mutex' # mutex)
    /\ mutex # 0 => Holding(mutex)

\* two probes are inside their subprocess while the run holds the mutex
\* inside its own, and the run took the mutex before either probe was
\* requested
C10_Witness ==
    /\ mutex = 1
    /\ tpc[1] = "exec"
    /\ cpc[1] = "exec"
    /\ cpc[2] = "exec"
    /\ \A c \in {1, 2} : checks[c].started_at > tStart[1]

CheckTerminal == {"completed", "failed"}

C12_ResultsOnlyWhenCompleted ==
    \A id \in DOMAIN checks :
        /\ checks[id].status \in {"pending", "running"} \cup CheckTerminal
        /\ checks[id].status # "completed" => checks[id].results = None

\* a failed check, without results, after the probe's goroutine has ended
C12_Witness ==
    /\ cpc[1] = "done"
    /\ 1 \in DOMAIN checks
    /\ checks[1].status = "failed"
    /\ checks[1].results = None

\* C13: the step in which the goroutine of a check writes the outcome
\* takes the row, when it is still visible, to failed with a non-empty error
\* text and no results, or to completed with the mapping and no error
\* text; it is failed whenever testInventoryHosts returned an error, which
\* it always does when the inventory is gone, and a completed check may
\* carry the empty mapping.
C13_ProbeOutcome ==
    [][ \A c \in CheckIDs :
          (cpc[c] \in {"exec", "noinv"} /\ cpc'[c] = "done"
             /\ c \in DOMAIN checks)
            => /\ c \in DOMAIN checks'
               /\ checks'[c].status \in CheckTerminal
               /\ checks'[c].completed_at = Some(clock)
               /\ cpc[c] = "noinv" => checks'[c].status = "failed"
               /\ checks'[c].status = "failed"
                    => /\ checks'[c].error # ""
                       /\ checks'[c].results = None
                       /\ \E res \in CheckResults(c) :
                            res.err = checks'[c].error
               /\ checks'[c].status = "completed"
                    => /\ checks'[c].error = ""
                       /\ checks'[c].results # None
                       /\ \E res \in CheckResults(c) :
                            res.err = "" /\ res.results = checks'[c].results ]_vars

\* a check completed with the empty mapping
C13_Witness ==
    /\ cpc[1] = "done"
    /\ 1 \in DOMAIN checks
    /\ checks[1].status = "completed"
    /\ checks[1].results = Some("")
    /\ checks[1].error = ""

\* C14: when parsePingResults has returned, every line "Host <h> is '<s>'"
\* of its argument has put h into the mapping with the bare status s, so
\* that "Host web1 is 'reachable'" and "Host web2 is 'unreachable'" give
\* web1 -> reachable and web2 -> unreachable.
C14_HostLinesParsed ==
    pingResults # None
      => \A i \in 1..Len(pingOutput) :
           \A h \in {TokWeb1, TokWeb2}, st \in {TokReachable, TokUnreachable} :
              pingOutput[i] = HostLine(h, st)
                => /\ h \in DOMAIN pingResults[1]
                   /\ pingResults[1][h] = st

\* C15: a sweep at time now with horizon RetentionDays removes from each of
\* the three tables exactly the rows whose start timestamp is before
\* now - RetentionDays and leaves the other rows as they are, a row that
\* started exactly at the cutoff included; no other step removes a row.
C15_RetentionCutoff ==
    [][ /\ cleanupOldLogs
          => /\ \A id \in DOMAIN runs :
                  /\ id \in DOMAIN runs'
                       <=> runs[id].start_time >= clock - RetentionDays
                  /\ id \in DOMAIN runs' => runs'[id] = runs[id]
             /\ \A id \in DOMAIN logs :
                  /\ id \in DOMAIN logs'
                       <=> logs[id].start_time >= clock - RetentionDays
                  /\ id \in DOMAIN logs' => logs'[id] = logs[id]
             /\ \A id \in DOMAIN checks :
                  /\ id \in DOMAIN checks'
                       <=> checks[id].started_at >= clock - RetentionDays
                  /\ id \in DOMAIN checks' => checks'[id] = checks[id]
             /\ DOMAIN runs' \subseteq DOMAIN runs
             /\ DOMAIN logs' \subseteq DOMAIN logs
             /\ DOMAIN checks' \subseteq DOMAIN checks
        /\ \A id \in DOMAIN runs \ DOMAIN runs' :
             runs[id].start_time < clock - RetentionDays
        /\ \A id \in DOMAIN logs \ DOMAIN logs' :
             logs[id].start_time < clock - RetentionDays
        /\ \A id \in DOMAIN checks \ DOMAIN checks' :
             checks[id].started_at < clock - RetentionDays ]_vars

\* the run, accepted two days ago, and the check, requested then, are
\* gone; the log row, whose start_time is exactly the cutoff, is there
C15_Witness ==
    /\ clock = RetentionDays + 1
    /\ rid[1] # 0
    /\ rid[1] \notin DOMAIN runs
    /\ cpc[1] # "none"
    /\ 1 \notin DOMAIN checks
    /\ tLog[1] \in DOMAIN logs
    /\ logs[tLog[1]].start_time = clock - RetentionDays

\* the tables that hold a row older than the cutoff of a sweep at time now
TablesWithOldRows(l, r, c, now) ==
    {t \in {"playbook_log"} : \E id \in DOMAIN l : l[id].start_time < Cutoff(now)}
    \cup
    {t \in {"playbook_run"} : \E id \in DOMAIN r : r[id].start_time < Cutoff(now)}
    \cup
    {t \in {"inventory_check"} : \E id \in DOMAIN c : c[id].started_at < Cutoff(now)}

\* C16: a sweep in which the deletion from one table fails still deletes
\* the old rows of the other two tables, so after it at most one table
\* holds rows older than the cutoff.
C16_SweepTablesIndependent ==
    [][ cleanupOldLogsFailing
          => Cardinality(TablesWithOldRows(logs', runs', checks', clock)) <= 1 ]_vars

\* what a listing in progress was asked for: the page parameter as a number
RequestedPage == FloorPage(Atoi(listing.param))

\* C17: when a listing has answered and its result set has P >= 1 pages, a
\* request for a page beyond P has got current_page P and the rows of page
\* P, which are not empty; page P itself is not changed by the clamp.
C17_PageClamp ==
    (listing.pc = "done" /\ listing.totalPages >= 1
       /\ RequestedPage > listing.totalPages)
      => LET ordered == OrderDesc(ListedTable(listing.table),
                                  Filtered(ListedTable(listing.table),
                                           listing.playbook))
             P == TotalPages(Len(ordered))
         IN /\ P = listing.totalPages
            /\ listing.page = P
            /\ ClampPage(P, P) = P
            /\ listing.rows = PageRows(ordered, P)
            /\ listing.rows # << >>

\* page 999 of a listing of three pages
C17_Witness ==
    /\ listing.pc = "done"
    /\ listing.param = << "9", "9", "9" >>
    /\ listing.totalPages = 3
    /\ listing.page = 3
    /\ Len(listing.rows) = 1

\* C18: the temporary files that exist are exactly those created by calls
\* that have not returned yet, each with its os.Remove deferred; a call
\* that has returned, on whatever path, has left none of the files it
\* created; when no call is in progress no temporary file exists.
C18_TempFilesReleased ==
    /\ tmpFiles = UNION {DeferredNames(calls[k].deferred) : k \in Calls}
    /\ \A k \in Calls :
         calls[k].pc = "returned"
           => /\ calls[k].created \cap tmpFiles = {}
              /\ calls[k].deferred = << >>
    /\ \A k \in Calls :
         calls[k].pc \notin {"none", "returned"}
           => calls[k].created \subseteq tmpFiles
    /\ (\A k \in Calls : calls[k].pc \in {"none", "returned"}) => tmpFiles = {}

\* a runAnsiblePlaybook call that failed to close its file and a
\* testInventoryHosts call whose subprocess failed after both files were
\* written have returned
C18_Witness ==
    /\ calls[1].fn = "runAnsiblePlaybook"
    /\ calls[1].pc = "returned"
    /\ calls[1].err = "failed to close temp file"
    /\ Cardinality(calls[1].created) = 1
    /\ calls[2].fn = "testInventoryHosts"
    /\ calls[2].pc = "returned"
    /\ calls[2].err = "ansible failed"
    /\ Cardinality(calls[2].created) = 2
    /\ tmpFiles = {}

\* how far the goroutine of a run request has got
RunRank(pc) ==
    CASE pc = "none" -> 0
      [] pc = "wait" -> 1
      [] pc \in {"exec", "nolaunch"} -> 2
      [] pc = "logged" -> 3
      [] pc = "done" -> 4

\* how far the goroutine of a check has got
CheckRank(pc) ==
    CASE pc = "none" -> 0
      [] pc = "spawned" -> 1
      [] pc \in {"exec", "noinv"} -> 2
      [] pc = "done" -> 3

\* C19: the goroutine of a run request only moves forward: it enters the
\* subprocess call at most once, from waiting for the mutex, and after it
\* has finalized its run nothing starts for that run again, in particular
\* not for a run that failed; a goroutine is started only together with a
\* new run row; the same holds for the goroutine of a check.
C19_NoRetry ==
    [][ /\ \A q \in Requests :
             /\ RunRank(tpc'[q]) >= RunRank(tpc[q])
             /\ (tpc'[q] = "exec" /\ tpc[q] # "exec") => tpc[q] = "wait"
             /\ (tpc'[q] = "wait" /\ tpc[q] # "wait")
                  => /\ tpc[q] = "none"
                     /\ rid'[q] \notin DOMAIN runs
             /\ (rid[q] \in DOMAIN runs /\ runs[rid[q]].status \in Terminal)
                  => tpc[q] = "done" /\ tpc'[q] = "done"
        /\ \A c \in CheckIDs :
             /\ CheckRank(cpc'[c]) >= CheckRank(cpc[c])
             /\ (cpc'[c] = "exec" /\ cpc[c] # "exec") => cpc[c] = "spawned"
             /\ (cpc'[c] = "spawned" /\ cpc[c] # "spawned")
                  => /\ cpc[c] = "none"
                     /\ c \notin DOMAIN checks
             /\ (c \in DOMAIN checks /\ checks[c].status \in CheckTerminal)
                  => cpc[c] = "done" /\ cpc'[c] = "done" ]_vars

\* a failed run and a failed check whose goroutines have ended, while the
\* mutex is free and another request has been accepted since
C19_Witness ==
    /\ tpc[1] = "done"
    /\ rid[1] \in DOMAIN runs
    /\ runs[rid[1]].status = "failed"
    /\ tpc[2] # "none"
    /\ cpc[1] = "done"
    /\ 1 \in DOMAIN checks
    /\ checks[1].status = "failed"

\* C20: the step in which the insert of the initial run row fails answers
\* the request with an internal error and changes nothing else: no row, no
\* goroutine, no request for the mutex; such a request never has a run id,
\* a goroutine or a log row, and never holds the mutex. The same for the
\* insert of the initial check row: no row and no goroutine, and whatever
\* starts later under that id is a new request with a new row.
C20_StoreErrorOnCreate ==
    [][ /\ \A q \in Requests :
             /\ (hpc[q] = "idle" /\ hpc'[q] = "error")
                  => UNCHANGED << storeVars, mutex, runTaskVars, rid,
                                  checkTaskVars >>
             /\ hpc'[q] = "error"
                  => /\ rid'[q] = 0
                     /\ tpc'[q] = "none"
                     /\ tLog'[q] = 0
                     /\ mutex' # q
             /\ hpc[q] = "error" => hpc'[q] = "error"
        /\ \A c \in CheckIDs :
             /\ (cpc[c] # "error" /\ cpc'[c] = "error")
                  => /\ cpc[c] = "none"
                     /\ UNCHANGED << storeVars, mutex, runTaskVars,
                                     handlerVars, cname >>
             /\ cpc'[c] = "error" => c \notin DOMAIN checks'
             /\ (cpc[c] = "error" /\ cpc'[c] # "error")
                  => /\ cpc'[c] = "spawned"
                     /\ c \in DOMAIN checks' \ DOMAIN checks
                     /\ checks'[c].status = "pending" ]_vars

\* a run request and a probe request were answered with an internal error;
\* the other run request and the earlier probe went through on their own
C20_Witness ==
    /\ hpc[1] = "error"
    /\ tpc[2] = "done"
    /\ DOMAIN runs = {rid[2]}
    /\ Cardinality(DOMAIN logs) = 1
    /\ cpc[1] = "done"
    /\ cpc[2] = "error"
    /\ DOMAIN checks = {1}
    /\ mutex = 0

\* C21: a probe request for a name without a live inventory is answered
\* with not found and changes nothing: no check row, no id taken, no
\* goroutine; while that answer stands there is no row under that id. Every
\* check row is inserted pending with the id of an inventory that is live
\* in the store at that moment, so every row carries the id of a stored
\* inventory.
C21_ProbeNotFound ==
    [][ /\ \A c \in CheckIDs :
             /\ (cpc[c] # "notfound" /\ cpc'[c] = "notfound")
                  => /\ cpc[c] = "none"
                     /\ \E n \in InvNames : ~InvLive(invs, n)
                     /\ UNCHANGED << storeVars, mutex, runTaskVars,
                                     handlerVars, cname >>
                     /\ \A d \in CheckIDs \ {c} : cpc'[d] = cpc[d]
             /\ cpc'[c] = "notfound" => c \notin DOMAIN checks'
             /\ c \in DOMAIN checks' \ DOMAIN checks
                  => /\ \E n \in InvNames :
                          /\ InvLive(invs, n)
                          /\ checks'[c].inventory_id = invs[n].id
                     /\ checks'[c].status = "pending"
                     /\ cpc'[c] = "spawned"
             /\ c \in DOMAIN checks'
                  => \E n \in DOMAIN invs' :
                       invs'[n].id = checks'[c].inventory_id ]_vars

\* a probe went through and finished, the inventory was deleted, and the
\* next probe of that name was refused: the row of the first probe is the
\* only one and no id was taken
C21_Witness ==
    /\ cpc[1] = "done"
    /\ cpc[2] = "notfound"
    /\ DOMAIN checks = {1}
    /\ nextCheckID = 2
    /\ \E n \in DOMAIN invs :
         /\ invs[n].deleted
         /\ checks[1].inventory_id = invs[n].id

\* C22: deleting an inventory removes its record altogether: after the
\* delete of a live inventory no row of that name is left in the table, so
\* the table is as if the name had never been created and the unique index
\* on name accepts a new row of that name.
C22_HardDelete ==
    [][ \A n \in InvNames :
          (InvLive(invs, n) /\ ~InvLive(invs', n))
             => /\ n \notin DOMAIN invs'
                /\ invs' = Restrict(invs, DOMAIN invs \ {n}) ]_vars

\* C23: the mutex is unlocked at the end of every run goroutine, whatever
\* runAnsiblePlaybook returned (success, a non-zero exit, a launch failure,
\* an inventory that does not resolve) and whether or not logExecution and
\* updatePlaybookRun wrote their rows: the mutex is held exactly while one
\* goroutine is between its Lock and the end of its finalization, it is
\* that goroutine that holds it, and it is free whenever no goroutine is
\* there, so a waiting goroutine can always go on.
C23_SlotReleased ==
    /\ (mutex # 0) <=> (\E q \in Requests : Holding(q))
    /\ \A q \in Requests : Holding(q) => mutex = q
    /\ \A q \in Requests : tpc[q] \in {"none", "wait", "done"} => mutex # q
    /\ (\A q \in Requests : tpc[q] \in {"none", "done"}) => mutex = 0

\* the goroutine of request 1 has ended after both of its writes failed
\* (no log row, the run still started) and the goroutine of request 2 has
\* the mutex
C23_Witness ==
    /\ tpc[1] = "done"
    /\ tLog[1] = 0
    /\ rid[1] \in DOMAIN runs
    /\ runs[rid[1]].status = "started"
    /\ mutex = 2
    /\ tpc[2] = "exec"

\* C24: the sweep looks at timestamps only. It deletes a run older than
\* the cutoff that is still started, whether its goroutine waits for the
\* mutex or holds it, and a check older than the cutoff that is still
\* pending or running; it neither takes nor waits for the mutex and leaves
\* every handler and goroutine where it is.
C24_SweepIgnoresInFlight ==
    [][ cleanupOldLogs
          => /\ UNCHANGED << mutex, handlerVars, runTaskVars, checkTaskVars >>
             /\ \A id \in DOMAIN runs :
                  (runs[id].status = "started"
                     /\ runs[id].start_time < Cutoff(clock))
                    => id \notin DOMAIN runs'
             /\ \A id \in DOMAIN checks :
                  (checks[id].status \in {"pending", "running"}
                     /\ checks[id].started_at < Cutoff(clock))
                    => id \notin DOMAIN checks' ]_vars

\* the goroutine of the run took the mutex on day 0 and is still inside
\* runAnsiblePlaybook, the probe is still inside testInventoryHosts, and a
\* sweep has deleted the run and the check meanwhile
C24_Witness ==
    /\ tpc[1] = "exec"
    /\ mutex = 1
    /\ tStart[1] = 0
    /\ rid[1] # 0
    /\ rid[1] \notin DOMAIN runs
    /\ cpc[1] = "exec"
    /\ 1 \notin DOMAIN checks

\* a line that parsePingResults passes over: one of the two markers is
\* missing, or there are fewer fields than the status position needs
Skipped(line) ==
    \/ ~Contains(line, TokHost)
    \/ ~Contains(line, TokIs)
    \/ Len(line) < 6

NotSkipped(line) == ~Skipped(line)

\* C25: parsePingResults returns a mapping for every text, and a line
\* without one of the markers or with too few fields (Host web3 is) adds
\* nothing to it: the hosts of the mapping are the hosts of the other
\* lines, each with the status of its last such line, and the mapping is
\* the one the text without the skipped lines gives.
C25_SkippedLinesIgnored ==
    pingResults # None
      => LET res == pingResults[1]
             kept == {i \in 1..Len(pingOutput) : NotSkipped(pingOutput[i])}
         IN /\ DOMAIN res = {pingOutput[i][2] : i \in kept}
            /\ \A i \in kept :
                 (\A j \in kept : j > i => pingOutput[j][2] # pingOutput[i][2])
                   => res[pingOutput[i][2]] = TrimRight(pingOutput[i][6])
            /\ res = parsePingResults(SelectSeq(pingOutput, NotSkipped))

\* a text with the three-field line, a six-field line without the marker
\* Host and a six-field line with both markers: the mapping has the entry
\* of the last one only
C25_Witness ==
    /\ pingResults # None
    /\ \E i \in 1..Len(pingOutput) : pingOutput[i] = << TokHost, TokWeb3, TokIs >>
    /\ \E i \in 1..Len(pingOutput) :
         /\ Len(pingOutput[i]) >= 6
         /\ ~Contains(pingOutput[i], TokHost)
    /\ DOMAIN pingResults[1] = {TokWeb2}
    /\ pingResults[1][TokWeb2] = TokQuote \o TokReachable

\* C26: what runAnsiblePlaybook captured is what is stored, on failure as
\* on success. The step in which the executor returns writes a log row
\* whose output and error are the returned ones and whose success flag is
\* false exactly when an error was returned; the finalizing step writes the
\* same output to the run row, failed exactly when an error was returned.
\* So the two rows of an execution carry the same output, a non-zero exit
\* keeps the output produced before it, and a stored output is empty only
\* when the output returned by the executor was.
C26_OutputKept ==
    [][ \A q \in Requests :
          /\ (tpc[q] \in {"exec", "nolaunch"} /\ tpc'[q] = "logged")
               => /\ tRes'[q] \in RunResults(q)
                  /\ tLog'[q] \in DOMAIN logs' \ DOMAIN logs
                  /\ logs'[tLog'[q]].output = tRes'[q].output
                  /\ logs'[tLog'[q]].error = tRes'[q].err
                  /\ logs'[tLog'[q]].success = (tRes'[q].err = "")
          /\ (tpc[q] = "logged" /\ tpc'[q] = "done" /\ rid[q] \in DOMAIN runs)
               => /\ runs'[rid[q]].output = tRes[q].output
                  /\ (runs'[rid[q]].status = "failed") = (tRes[q].err # "")
                  /\ tLog[q] \in DOMAIN logs
                       => /\ logs[tLog[q]].output = runs'[rid[q]].output
                          /\ logs[tLog[q]].success
                               = (runs'[rid[q]].status = "completed") ]_vars

\* a subprocess printed "fatal" and exited with status 2: the run is failed
\* and the log row unsuccessful, both with that output and that error
C26_Witness ==
    \E q \in Requests :
        /\ tpc[q] = "done"
        /\ rid[q] \in DOMAIN runs
        /\ tLog[q] \in DOMAIN logs
        /\ runs[rid[q]].status = "failed"
        /\ runs[rid[q]].output = "fatal"
        /\ runs[rid[q]].error = "exit status 2"
        /\ ~logs[tLog[q]].success
        /\ logs[tLog[q]].output = "fatal"
        /\ logs[tLog[q]].error = "exit status 2"

\* C27: a request that names an inventory is accepted when its playbook
\* exists, whatever the inventory table holds. The name is looked up by the
\* goroutine once it has the mutex: when no live inventory of that name is
\* found then, no command is run, the log row is written all the same with
\* success false, an error text and no output, and the run is finalized
\* failed with that error text and no output.
C27_InventoryResolvedLate ==
    [][ \A q \in Requests :
          /\ (hpc[q] = "idle" /\ hpc'[q] = "returned")
               => /\ req'[q].playbook \in Playbooks
                  /\ tpc'[q] = "wait"
                  /\ invs' = invs
          /\ (tpc[q] = "wait" /\ tpc'[q] # "wait")
               => /\ mutex' = q
                  /\ tpc'[q] = "nolaunch"
                       <=> (req[q].inventory # ""
                              /\ ~InvLive(invs, req[q].inventory))
                  /\ tpc'[q] = "exec"
                       <=> (req[q].inventory = ""
                              \/ InvLive(invs, req[q].inventory))
          /\ tpc[q] = "nolaunch"
               => /\ tpc'[q] \in {"nolaunch", "logged"}
                  /\ tpc'[q] = "logged"
                       => /\ tRes'[q].output = ""
                          /\ tRes'[q].err # ""
                          /\ tRes'[q] \notin ExecResults
                          /\ tLog'[q] \in DOMAIN logs' \ DOMAIN logs
                          /\ ~logs'[tLog'[q]].success
                          /\ logs'[tLog'[q]].output = ""
                          /\ logs'[tLog'[q]].error = tRes'[q].err
          /\ (tpc[q] = "logged" /\ tpc'[q] = "done"
                /\ tRes[q] \notin ExecResults /\ rid[q] \in DOMAIN runs)
               => /\ runs'[rid[q]].status = "failed"
                  /\ runs'[rid[q]].output = ""
                  /\ runs'[rid[q]].error = tRes[q].err
                  /\ runs'[rid[q]].error # "" ]_vars

\* request 1 was submitted first and executed after request 2, which ran
\* its command with the inventory; by then the inventory had been deleted:
\* run 1 is failed without output and its log row is unsuccessful
C27_Witness ==
    /\ tpc[1] = "done"
    /\ tpc[2] = "done"
    /\ req[1].inventory \in InvNames
    /\ req[2].inventory = req[1].inventory
    /\ req[1].inventory \in DOMAIN invs
    /\ invs[req[1].inventory].deleted
    /\ tLog[2] < tLog[1]
    /\ rid[1] \in DOMAIN runs
    /\ rid[2] \in DOMAIN runs
    /\ runs[rid[2]].status = "completed"
    /\ runs[rid[1]].status = "failed"
    /\ runs[rid[1]].output = ""
    /\ runs[rid[1]].error = "failed to get inventory: record not found"
    /\ tLog[1] \in DOMAIN logs
    /\ ~logs[tLog[1]].success
    /\ logs[tLog[1]].output = ""

\* C28: with subprocesses that return, store writes that succeed, no sweep
\* and a mutex that every waiting goroutine gets in the end, every accepted
\* run leaves started for completed or failed, and every accepted probe
\* reaches completed or failed.
C28_RunsAndProbesTerminate ==
    /\ \A q \in Requests :
         (tpc[q] = "wait")
           ~> (rid[q] \in DOMAIN runs /\ runs[rid[q]].status \in Terminal)
    /\ \A c \in {1} :
         (cpc[c] = "spawned")
           ~> (c \in DOMAIN checks /\ checks[c].status \in CheckTerminal)

\* every request was accepted and its run is terminal, one completed and
\* one failed; the probe is terminal as well
C28_Witness ==
    /\ \A q \in Requests :
         /\ tpc[q] = "done"
         /\ rid[q] \in DOMAIN runs
         /\ runs[rid[q]].status \in Terminal
    /\ \E q \in Requests : runs[rid[q]].status = "completed"
    /\ \E q \in Requests : runs[rid[q]].status = "failed"
    /\ cpc[1] = "done"
    /\ checks[1].status \in CheckTerminal

\* C29: the goroutine writes its log row before it updates its run. The
\* step that takes a run out of started is taken by a goroutine whose log
\* row is already in the table, so whenever a run is completed or failed
\* the log row of its execution is there, for the same playbook and with
\* success true exactly when the run is completed; a run that is still
\* started while its log row is written does occur.
C29_LogBeforeRunUpdate ==
    [][ \A q \in Requests :
          /\ (rid[q] \in DOMAIN runs /\ rid[q] \in DOMAIN runs'
                /\ runs[rid[q]].status = "started"
                /\ runs'[rid[q]].status \in Terminal)
               => /\ tLog[q] \in DOMAIN logs
                  /\ logs' = logs
          /\ (rid[q] \in DOMAIN runs' /\ runs'[rid[q]].status \in Terminal)
               => /\ tLog'[q] \in DOMAIN logs'
                  /\ logs'[tLog'[q]].playbook = runs'[rid[q]].playbook
                  /\ logs'[tLog'[q]].success
                       = (runs'[rid[q]].status = "completed")
          /\ (tLog[q] = 0 /\ tLog'[q] # 0)
               => /\ rid[q] \in DOMAIN runs => runs[rid[q]].status = "started"
                  /\ runs' = runs ]_vars

\* the log row of an execution is written and its run is still started
C29_Witness ==
    \E q \in Requests :
        /\ tpc[q] = "logged"
        /\ tLog[q] \in DOMAIN logs
        /\ rid[q] \in DOMAIN runs
        /\ runs[rid[q]].status = "started"
        /\ ~logs[tLog[q]].success

\* C30: the run row and the log row of one execution measure different
\* spans. The run's start_time is the time of acceptance and its end_time
\* the time of the final update; the log's start_time is the time at which
\* the goroutine got the mutex, its end_time the time at which
\* runAnsiblePlaybook returned, and its duration their difference. Hence,
\* for a finalized run with its log row: run start_time <= log start_time,
\* log end_time <= run end_time, and run duration >= log duration.
C30_TimeBases ==
    [][ \A q \in Requests :
          /\ (rid'[q] \in DOMAIN runs' \ DOMAIN runs)
               => runs'[rid'[q]].start_time = clock
          /\ (tpc[q] = "wait" /\ tpc'[q] # "wait")
               => tStart'[q] = clock
          /\ (tpc[q] \in {"exec", "nolaunch"} /\ tpc'[q] = "logged")
               => /\ logs'[tLog'[q]].start_time = tStart[q]
                  /\ logs'[tLog'[q]].end_time = clock
                  /\ logs'[tLog'[q]].duration = clock - tStart[q]
          /\ (rid[q] \in DOMAIN runs' /\ runs'[rid[q]].status \in Terminal
                /\ tLog'[q] \in DOMAIN logs')
               => LET run == runs'[rid[q]]
                      lg == logs'[tLog'[q]]
                  IN /\ run.start_time <= lg.start_time
                     /\ lg.start_time <= lg.end_time
                     /\ lg.end_time <= run.end_time[1]
                     /\ run.duration[1] >= lg.duration
                     /\ lg.duration >= 0 ]_vars

\* a run that waited a day for the mutex, executed for a day and was
\* finalized at once: the run's duration is two days, the log's one
C30_Witness ==
    \E q \in Requests :
        /\ rid[q] \in DOMAIN runs
        /\ tLog[q] \in DOMAIN logs
        /\ runs[rid[q]].status \in Terminal
        /\ runs[rid[q]].start_time < logs[tLog[q]].start_time
        /\ logs[tLog[q]].start_time < logs[tLog[q]].end_time
        /\ runs[rid[q]].duration[1] > logs[tLog[q]].duration
        /\ logs[tLog[q]].duration > 0

\* the goroutine of request k has not locked the mutex yet: no log row of
\* its own, its run still started
NotYetInvoked(k) ==
    /\ tpc[k] \in {"none", "wait"}
    /\ tLog[k] = 0
    /\ rid[k] \in DOMAIN runs => runs[rid[k]].status = "started"

\* the goroutine of request k has ended: its log row was written and its
\* run, when visible, is terminal
Finalized(k) ==
    /\ tpc[k] = "done"
    /\ tLog[k] # 0
    /\ rid[k] \in DOMAIN runs => runs[rid[k]].status \in Terminal

\* C31: the mutex covers the subprocess and both writes that follow it.
\* When a goroutine gets the mutex and enters runAnsiblePlaybook, every
\* other request either has not been invoked yet or is finalized altogether
\* (log row written, run terminal): none has a write pending. Log rows are
\* therefore appended, and runs become terminal, in the order of the
\* invocations: a log row gets an id above all earlier ones, and when a run
\* becomes terminal the requests with an earlier log row are finalized and
\* all others are not yet invoked.
C31_FinalizationsSerialized ==
    [][ \A q \in Requests :
          /\ (tpc[q] = "wait" /\ tpc'[q] \in {"exec", "nolaunch"})
               => \A k \in Requests \ {q} : NotYetInvoked(k) \/ Finalized(k)
          /\ (tpc[q] \in {"exec", "nolaunch"} /\ tpc'[q] = "logged")
               => /\ \A k \in Requests \ {q} :
                       /\ NotYetInvoked(k) \/ Finalized(k)
                       /\ tLog[k] < tLog'[q]
                  /\ \A id \in DOMAIN logs : id < tLog'[q]
          /\ (tpc[q] = "logged" /\ tpc'[q] = "done")
               => \A k \in Requests \ {q} :
                    /\ NotYetInvoked(k) \/ Finalized(k)
                    /\ Finalized(k) <=> (tLog[k] # 0 /\ tLog[k] < tLog[q])
                    /\ NotYetInvoked(k) <=> tLog[k] = 0 ]_vars

\* request 2 was invoked before request 1, which was submitted first: its
\* log row is the earlier one, and both runs are terminal
C31_Witness ==
    /\ tpc[1] = "done"
    /\ tpc[2] = "done"
    /\ tLog[2] # 0
    /\ tLog[2] < tLog[1]
    /\ runs[rid[1]].status \in Terminal
    /\ runs[rid[2]].status \in Terminal

\* C32: only a submit adds a row to playbook_run, under a new id. A run
\* that the sweep deleted while it was started does not come back: the
\* final update of its goroutine finds no row and changes nothing, and an
\* id that was given out and is not in the table is never in it again. The
\* goroutine runs all the same and its log row is appended.
C32_FinalizeCreatesNoRun ==
    [][ /\ DOMAIN runs' \ DOMAIN runs # {}
          => \E q \in Requests :
               /\ hpc[q] = "idle"
               /\ hpc'[q] # "idle"
               /\ rid'[q] = nextRunID
               /\ nextRunID' = nextRunID + 1
               /\ DOMAIN runs' = DOMAIN runs \cup {nextRunID}
               /\ runs'[nextRunID].status = "started"
        /\ \A id \in 1..(nextRunID - 1) :
             id \notin DOMAIN runs => id \notin DOMAIN runs'
        /\ \A q \in Requests :
             /\ (tpc[q] = "logged" /\ tpc'[q] = "done"
                   /\ rid[q] \notin DOMAIN runs)
                  => runs' = runs
             /\ (tpc[q] \in {"exec", "nolaunch"} /\ tpc'[q] = "logged")
                  => /\ tLog'[q] \in DOMAIN logs' \ DOMAIN logs
                     /\ logs'[tLog'[q]].playbook = req[q].playbook ]_vars

\* the run of a request was swept while its goroutine held the mutex; the
\* goroutine has ended since, its log row is in the table and the run is not
C32_Witness ==
    \E q \in Requests :
        /\ tpc[q] = "done"
        /\ rid[q] # 0
        /\ rid[q] \notin DOMAIN runs
        /\ tLog[q] \in DOMAIN logs
        /\ logs[tLog[q]].playbook = req[q].playbook

\* C33: whatever the page parameter and the size of the filtered result
\* set, the answer of a listing has total_pages = ceil(total_count /
\* page size) and 1 <= current_page <= max(1, total_pages).
C33_PageBounds ==
    listing.pc = "done"
      => /\ listing.totalPages * PageSize >= listing.totalCount
         /\ (listing.totalPages - 1) * PageSize < listing.totalCount
         /\ 1 <= listing.page
         /\ listing.page <= (IF listing.totalPages > 1
                             THEN listing.totalPages ELSE 1)

\* C34: the answer of a listing is taken from one view of the table, also
\* when a sweep or a submit happens during the request: a listing that
\* reports total_count > 0 returns rows, and no more rows than it counted.
C34_ListingConsistent ==
    (listing.pc = "done" /\ listing.totalCount > 0)
      => /\ listing.rows # << >>
         /\ Len(listing.rows) <= listing.totalCount

\* C35: each of the two writes of a finalization can fail without the
\* other. Whether or not logExecution wrote its row, the goroutine goes on
\* to updatePlaybookRun while it still holds the mutex; whether or not
\* updatePlaybookRun changed the row, the goroutine ends and the mutex is
\* free. After that nothing touches the run again: a run left started by a
\* failed update stays started, its log row stays, the goroutine does not
\* start again and does not take the mutex again.
C35_WritesFailIndependently ==
    [][ \A q \in Requests :
          /\ tpc[q] \in {"exec", "nolaunch"}
               => tpc'[q] \in {tpc[q], "logged"}
          /\ (tpc[q] \in {"exec", "nolaunch"} /\ tpc'[q] = "logged")
               => /\ mutex' = q
                  /\ runs' = runs
                  /\ \/ /\ logs' = logs
                        /\ tLog'[q] = 0
                     \/ /\ tLog'[q] \in DOMAIN logs' \ DOMAIN logs
                        /\ DOMAIN logs' = DOMAIN logs \cup {tLog'[q]}
          /\ tpc[q] = "logged" => tpc'[q] \in {"logged", "done"}
          /\ (tpc[q] = "logged" /\ tpc'[q] = "done")
               => /\ mutex' = 0
                  /\ logs' = logs
                  /\ tLog'[q] = tLog[q]
                  /\ \/ runs' = runs
                     \/ /\ rid[q] \in DOMAIN runs
                        /\ runs[rid[q]].status = "started"
                        /\ runs'[rid[q]].status \in Terminal
          /\ tpc[q] = "done"
               => /\ tpc'[q] = "done"
                  /\ mutex' # q
                  /\ tLog'[q] = tLog[q]
                  /\ rid[q] \in DOMAIN runs' /\ runs'[rid[q]] = runs[rid[q]]
                  /\ tLog[q] # 0
                       => /\ tLog[q] \in DOMAIN logs'
                          /\ logs'[tLog[q]] = logs[tLog[q]] ]_vars

\* request 1: the log row could not be written and the run was finalized
\* all the same; request 2: the log row was written and the update failed,
\* so the run is started although its goroutine has ended; the mutex is free
C35_Witness ==
    /\ tpc[1] = "done"
    /\ tLog[1] = 0
    /\ runs[rid[1]].status \in Terminal
    /\ tpc[2] = "done"
    /\ tLog[2] \in DOMAIN logs
    /\ runs[rid[2]].status = "started"
    /\ Cardinality(DOMAIN logs) = 1
    /\ mutex = 0

====
